---- MODULE Spec2Model ----
(***************************************************************************)
(* pwclient: the two API backends (legacy XML-RPC, REST) of api.py and the *)
(* lookup helpers of patches.py / projects.py, as one state machine.       *)
(*                                                                         *)
(* One run of the client builds one backend object and runs one operation *)
(* on it; no operation assigns to the object after __init__.  A state      *)
(* holds the backend object and the record of the last call: its inputs,   *)
(* how it ended (return / raise / exit), what it returned, what it wrote   *)
(* to standard error and which remote calls or HTTP requests it issued, in *)
(* order.  Text is a sequence of one-character strings, a Python dict is a *)
(* function on its keys (the empty dict is << >>), a Python list is a      *)
(* sequence, and a Python scalar that travels as a value (an argument of a *)
(* remote call, a field of a payload, a returned number) is a tagged       *)
(* record, so that any two values can be compared.                         *)
(***************************************************************************)
EXTENDS Integers, Sequences, FiniteSets, TLC

VARIABLES
    api,        \* the backend object: backend, _server, credentials
    op,         \* name of the last operation
    inp,        \* its inputs (the arguments and the remote side's answers)
    outcome,    \* "none" | "pending" | "return" | "raise" | "exit"
    exc,        \* exception class when outcome = "raise", else ""
    msg,        \* exception message when outcome = "raise", else ""
    status,     \* process exit status when outcome = "exit", else 0
    ret,        \* returned value when outcome = "return"
    stderr,     \* lines written to standard error by the operation
    calls,      \* remote calls / HTTP requests issued by the operation
    created,    \* connection objects built by the last constructor call
    inflight    \* HTTP requests sent and not yet answered

vars == <<api, op, inp, outcome, exc, msg, status, ret, stderr, calls,
          created, inflight>>

----------------------------------------------------------------------------
(* Bounds of the model *)

MaxPages == 2       \* pages in a paginated REST collection
MaxItems == 1       \* items per page
MaxMatches == 2     \* patches a REST hash query returns
MaxIdLen == 2       \* characters of a patch id sent as text
MaxStates == 2      \* states / projects in a legacy list response

----------------------------------------------------------------------------
(* Python values *)

\* None for plain scalar arguments (username, password, token, ...)
None == "<None>"

\* Python truthiness of an optional string argument
Truthy(v) == v # None /\ v # ""

\* scalar values are tagged
PyNone == [t |-> "None"]
PyInt(n) == [t |-> "int", n |-> n]
PyStr(s) == [t |-> "str", s |-> s]
PyBool(b) == [t |-> "bool", b |-> b]
\* a list that is the value of an operation
PyList(l) == [t |-> "list", items |-> l]

\* truthiness of a tagged value or a dict / list
PyTruthy(x) ==
    IF DOMAIN x = {} THEN FALSE
    ELSE IF "t" \notin DOMAIN x THEN TRUE
    ELSE IF x.t = "None" THEN FALSE
    ELSE IF x.t = "int" THEN x.n # 0
    ELSE IF x.t = "str" THEN x.s # << >>
    ELSE IF x.t = "bool" THEN x.b
    ELSE TRUE

\* the result of running an operation to its end
Returns(value, err, cs) ==
    [outcome |-> "return", exc |-> "", msg |-> "", status |-> 0,
     ret |-> value, stderr |-> err, calls |-> cs]

Raises(cls, message, err, cs) ==
    [outcome |-> "raise", exc |-> cls, msg |-> message, status |-> 0,
     ret |-> PyNone, stderr |-> err, calls |-> cs]

Exits(code, err, cs) ==
    [outcome |-> "exit", exc |-> "", msg |-> "", status |-> code,
     ret |-> PyNone, stderr |-> err, calls |-> cs]

\* an operation that returns a list, the list as its value
ListResult(r) ==
    IF r.outcome = "return" THEN [r EXCEPT !.ret = PyList(@)] ELSE r

----------------------------------------------------------------------------
(* Text helpers *)

RECURSIVE RStrip(_, _)
\* str.rstrip(ch)
RStrip(s, ch) ==
    IF s # << >> /\ s[Len(s)] = ch THEN RStrip(SubSeq(s, 1, Len(s) - 1), ch)
    ELSE s

\* str.lower() on the characters the model uses
LowerChar(c) ==
    CASE c = "N" -> "n"
      [] c = "A" -> "a"
      [] c = "U" -> "u"
      [] c = "E" -> "e"
      [] c = "W" -> "w"
      [] c = "R" -> "r"
      [] c = "F" -> "f"
      [] c = "C" -> "c"
      [] c = "P" -> "p"
      [] OTHER -> c

Lower(s) == [i \in 1..Len(s) |-> LowerChar(s[i])]

\* str.startswith(prefix)
StartsWith(s, prefix) ==
    Len(prefix) <= Len(s) /\ SubSeq(s, 1, Len(prefix)) = prefix

----------------------------------------------------------------------------
(* Constructors: API.__init__, XMLRPC.__init__, REST.__init__ *)

MSG_BOTH_NEEDED == "You must provide both a username and a password or a token"
MSG_NOT_BOTH == "You must provide either a username and password or a token, not both"
MSG_NO_TOKENS == "The XML-RPC API does not support API tokens"
MSG_NO_CONNECT == "Unable to connect"

NoApi ==
    [backend |-> "none", server |-> << >>, username |-> None,
     password |-> None, token |-> None, credentials |-> << >>]

\* the message of the ConfigError API.__init__ raises, "" when it raises none
API_init(username, password, token) ==
    IF (Truthy(username) /\ ~Truthy(password))
        \/ (Truthy(password) /\ ~Truthy(username))
    THEN MSG_BOTH_NEEDED
    ELSE IF (Truthy(username) /\ Truthy(password)) /\ Truthy(token)
    THEN MSG_NOT_BOTH
    ELSE ""

\* a server URL as urllib.parse.urlparse splits it
ServerText(server) == <<server.scheme, "://", server.netloc>> \o server.path

\* xmlrpclib.Server(...) raises OSError for a scheme it does not speak
ServerProxyFails(server) == server.scheme \notin {"http", "https"}

\* XMLRPC.__init__ with the token check moved after the transport is built
XMLRPC_init_token_checked_late(server, username, password, token) ==
    LET base == API_init(username, password, token) IN
    IF base # ""
    THEN [r |-> Raises("ConfigError", base, << >>, << >>),
          api |-> NoApi, created |-> {}]
    ELSE IF Truthy(token)
    THEN [r |-> Raises("ConfigError", MSG_NO_TOKENS, << >>, << >>),
          api |-> NoApi, created |-> {"transport"}]
    ELSE [r |-> Returns(PyNone, << >>, << >>),
          api |-> NoApi, created |-> {"transport", "proxy"}]

\* XMLRPC.__init__: [r: how it ended, api: the object, created: what it built]
XMLRPC_init(server, username, password, token) ==
    LET base == API_init(username, password, token) IN
    IF base # ""
    THEN [r |-> Raises("ConfigError", base, << >>, << >>),
          api |-> NoApi, created |-> {}]
    ELSE IF Truthy(token)
    THEN [r |-> Raises("ConfigError", MSG_NO_TOKENS, << >>, << >>),
          api |-> NoApi, created |-> {}]
    ELSE IF ServerProxyFails(server)
    THEN [r |-> Raises("APIError", MSG_NO_CONNECT, << >>, << >>),
          api |-> NoApi, created |-> {"transport"}]
    ELSE [r |-> Returns(PyNone, << >>, << >>),
          api |-> [backend |-> "xmlrpc", server |-> ServerText(server),
                   username |-> None, password |-> None, token |-> None,
                   credentials |->
                       IF Truthy(username) /\ Truthy(password)
                       THEN <<username, ":", password>> ELSE << >>],
          created |-> {"transport", "proxy"}]

\* REST.__init__
REST_init(server, username, password, token) ==
    LET scheme == IF server.scheme # "" THEN server.scheme ELSE "http"
        path == IF RStrip(server.path, "/") = <<"/", "xmlrpc">>
                THEN <<"/", "api">> ELSE server.path
    IN  [r |-> Returns(PyNone, << >>, << >>),
         api |-> [backend |-> "rest",
                  server |-> <<scheme, "://", server.netloc>> \o path,
                  username |-> username, password |-> password,
                  token |-> token, credentials |-> << >>],
         created |-> {}]

Usernames == {None, "user"}
Passwords == {None, "pass"}
Tokens == {None, "foo"}
Paths == {<<"/", "api">>, <<"/", "api", "/">>, <<"/", "xmlrpc">>,
          <<"/", "xmlrpc", "/">>}
Servers ==
    [scheme : {"https", ""}, netloc : {"patchwork.kernel.org"}, path : Paths]

\* nothing has been constructed yet
Fresh == op = "none"

\* a backend of this kind has just been constructed
Ready(backend) ==
    /\ api.backend = backend
    /\ op \in {"XMLRPC.__init__", "REST.__init__"}
    /\ outcome = "return"

Finish(name, input, r) ==
    /\ op' = name
    /\ inp' = input
    /\ outcome' = r.outcome
    /\ exc' = r.exc
    /\ msg' = r.msg
    /\ status' = r.status
    /\ ret' = r.ret
    /\ stderr' = r.stderr
    /\ calls' = r.calls

NewXMLRPC ==
    \E server \in Servers, username \in Usernames, password \in Passwords,
       token \in Tokens :
        LET c == XMLRPC_init(server, username, password, token) IN
        /\ Fresh
        /\ Finish("XMLRPC.__init__", [server |-> server, username |-> username,
                                      password |-> password,
                                      token |-> token], c.r)
        /\ api' = c.api
        /\ created' = c.created
        /\ UNCHANGED inflight

NewREST ==
    \E server \in Servers, username \in Usernames, password \in Passwords,
       token \in Tokens :
        LET c == REST_init(server, username, password, token) IN
        /\ Fresh
        /\ Finish("REST.__init__", [server |-> server, username |-> username,
                                    password |-> password,
                                    token |-> token], c.r)
        /\ api' = c.api
        /\ created' = c.created
        /\ UNCHANGED inflight


----------------------------------------------------------------------------
(* The legacy remote side: what an XML-RPC method call can answer *)

\* a method call as the server proxy sends it
Call(fn, args) == [fn |-> fn, args |-> args]

\* the answers: a fault, or a value
FaultAnswer == [fault |-> TRUE, value |-> << >>]
Answer(v) == [fault |-> FALSE, value |-> v]

FAULT_STRING == "remote fault"

\* the number of calls of the remote method fn in cs
CallsOf(fn, cs) == Cardinality({i \in 1..Len(cs) : cs[i].fn = fn})

\* the sequences over S of length at most n
SeqsUpTo(S, n) == UNION {[1..k -> S] : k \in 0..n}

\* state records of the remote state list
StateRecords ==
    {[id |-> 1, name |-> <<"N", "e", "w">>],
     [id |-> 2, name |-> <<"N", "e", "w", "e", "r">>],
     [id |-> 3, name |-> <<"R", "F", "C">>]}

StateNames ==
    {<< >>, <<"n">>, <<"N", "e", "w">>, <<"N", "E", "W">>,
     <<"N", "e", "w", "e", "r">>, <<"r", "f">>, <<"e", "w">>}

\* project records of the remote project list
ProjectRecords ==
    {[id |-> 1, linkname |-> <<"p", "w">>],
     [id |-> 2, linkname |-> <<"p", "w", "c">>],
     [id |-> 3, linkname |-> <<"P", "w">>]}

Linknames ==
    {<< >>, <<"p">>, <<"p", "w">>, <<"P", "w">>, <<"p", "w", "c">>,
     <<"w">>}

----------------------------------------------------------------------------
(* XMLRPC._state_id_by_name *)

RECURSIVE FirstStateFrom_case_sensitive(_, _, _)
\* the loop with the two .lower() calls left out
FirstStateFrom_case_sensitive(states, name, i) ==
    IF i > Len(states) THEN 0
    ELSE IF StartsWith(states[i].name, name)
    THEN states[i].id
    ELSE FirstStateFrom_case_sensitive(states, name, i + 1)

RECURSIVE FirstStateFrom(_, _, _)
\* the loop "for state in states: if ... startswith ...: return state['id']"
FirstStateFrom(states, name, i) ==
    IF i > Len(states) THEN 0
    ELSE IF StartsWith(Lower(states[i].name), Lower(name))
    THEN states[i].id
    ELSE FirstStateFrom(states, name, i + 1)

\* XMLRPC.state_list: the remote call, its fault passed on as it is
XMLRPC_state_list(search_str, max_count, answer) ==
    LET cs == <<Call("state_list",
                     <<PyStr(search_str), PyInt(max_count)>>)>> IN
    IF answer.fault THEN Raises("Fault", FAULT_STRING, << >>, cs)
    ELSE Returns(answer.value, << >>, cs)

XMLRPC_state_id_by_name(name, answer) ==
    IF Len(name) = 0 THEN Returns(PyInt(0), << >>, << >>)
    ELSE LET states == XMLRPC_state_list(name, 0, answer) IN
         IF states.outcome # "return" THEN states
         ELSE Returns(PyInt(FirstStateFrom(states.ret, name, 1)), << >>,
                      states.calls)

StateIdByName ==
    \E name \in StateNames,
       answer \in {FaultAnswer}
                  \cup {Answer(l) : l \in SeqsUpTo(StateRecords, MaxStates)} :
        /\ Ready("xmlrpc")
        /\ Finish("XMLRPC._state_id_by_name",
                  [name |-> name, answer |-> answer],
                  XMLRPC_state_id_by_name(name, answer))
        /\ UNCHANGED <<api, created, inflight>>

----------------------------------------------------------------------------
(* XMLRPC._project_id_by_name and projects.project_id_by_name *)

RECURSIVE FirstProjectFrom_prefix(_, _, _)
\* the loop with startswith in place of ==
FirstProjectFrom_prefix(projects, linkname, i) ==
    IF i > Len(projects) THEN 0
    ELSE IF StartsWith(projects[i].linkname, linkname)
    THEN projects[i].id
    ELSE FirstProjectFrom_prefix(projects, linkname, i + 1)

RECURSIVE FirstProjectFrom(_, _, _)
\* the loop "for project in projects: if project['linkname'] == linkname"
FirstProjectFrom(projects, linkname, i) ==
    IF i > Len(projects) THEN 0
    ELSE IF projects[i].linkname = linkname
    THEN projects[i].id
    ELSE FirstProjectFrom(projects, linkname, i + 1)

\* XMLRPC.project_list
XMLRPC_project_list(search_str, max_count, answer) ==
    LET cs == <<Call("project_list",
                     <<PyStr(search_str), PyInt(max_count)>>)>> IN
    IF answer.fault THEN Raises("Fault", FAULT_STRING, << >>, cs)
    ELSE Returns(answer.value, << >>, cs)

XMLRPC_project_id_by_name(linkname, answer) ==
    IF Len(linkname) = 0 THEN Returns(PyInt(0), << >>, << >>)
    ELSE LET projects == XMLRPC_project_list(linkname, 0, answer) IN
         IF projects.outcome # "return" THEN projects
         ELSE Returns(PyInt(FirstProjectFrom(projects.ret, linkname, 1)),
                      << >>, projects.calls)

\* projects.project_id_by_name(api, linkname), api the legacy backend
project_id_by_name(linkname, answer) ==
    IF Len(linkname) = 0 THEN Returns(PyInt(0), << >>, << >>)
    ELSE LET projects == XMLRPC_project_list(linkname, 0, answer) IN
         IF projects.outcome # "return" THEN projects
         ELSE Returns(PyInt(FirstProjectFrom(projects.ret, linkname, 1)),
                      << >>, projects.calls)

ProjectAnswers ==
    {FaultAnswer} \cup {Answer(l) : l \in SeqsUpTo(ProjectRecords, MaxStates)}

ProjectIdByName ==
    \E linkname \in Linknames, answer \in ProjectAnswers :
        /\ Ready("xmlrpc")
        /\ Finish("XMLRPC._project_id_by_name",
                  [linkname |-> linkname, answer |-> answer],
                  XMLRPC_project_id_by_name(linkname, answer))
        /\ UNCHANGED <<api, created, inflight>>

ProjectsProjectIdByName ==
    \E linkname \in Linknames, answer \in ProjectAnswers :
        /\ Ready("xmlrpc")
        /\ Finish("projects.project_id_by_name",
                  [linkname |-> linkname, answer |-> answer],
                  project_id_by_name(linkname, answer))
        /\ UNCHANGED <<api, created, inflight>>


----------------------------------------------------------------------------
(* Patch ids: int(patch['id']) *)

Digits == {"0", "1", "2"}
IdChars == {"1", "2", "x", "-"}

DigitValue(c) == CASE c = "0" -> 0 [] c = "1" -> 1 [] c = "2" -> 2

RECURSIVE DigitsValue(_)
DigitsValue(ds) ==
    IF ds = << >> THEN 0
    ELSE 10 * DigitsValue(SubSeq(ds, 1, Len(ds) - 1)) + DigitValue(ds[Len(ds)])

\* int(x): an int as it is, text parsed (sign, then digits), else ValueError
int(x) ==
    IF x.t = "int" THEN [ok |-> TRUE, v |-> x.n]
    ELSE LET signed == x.s # << >> /\ x.s[1] \in {"-", "+"}
             ds == IF signed THEN Tail(x.s) ELSE x.s
         IN  IF ds # << >> /\ \A i \in 1..Len(ds) : ds[i] \in Digits
             THEN [ok |-> TRUE,
                   v |-> IF signed /\ x.s[1] = "-" THEN 0 - DigitsValue(ds)
                         ELSE DigitsValue(ds)]
             ELSE [ok |-> FALSE, v |-> 0]

\* the ids a legacy patch record can carry
IdValues ==
    {PyInt(1), PyInt(12)} \cup {PyStr(t) : t \in SeqsUpTo(IdChars, MaxIdLen)}

\* legacy patch records as the remote side sends them ({} for no patch)
XmlrpcPatches ==
    {<< >>} \cup {[id |-> i, name |-> PyStr(<<"f", "i", "x">>)] : i \in IdValues}

XmlrpcPatchAnswers == {FaultAnswer} \cup {Answer(w) : w \in XmlrpcPatches}

Projects == {<<"p", "w">>}
Hashes == {<<"6", "9", "8">>}

NO_PATCH_WITH_HASH == "No patch has the hash provided"
INVALID_PATCH_ID == "Invalid patch ID obtained from server"

----------------------------------------------------------------------------
(* Hash lookups of the legacy backend *)

\* XMLRPC.patch_get_by_project_hash
XMLRPC_patch_get_by_project_hash(project, hash, answer) ==
    LET cs == <<Call("patch_get_by_project_hash",
                     <<PyStr(project), PyStr(hash)>>)>> IN
    IF answer.fault THEN Raises("Fault", FAULT_STRING, << >>, cs)
    ELSE Returns(answer.value, << >>, cs)

\* XMLRPC.patch_get_by_hash
XMLRPC_patch_get_by_hash(hash, answer) ==
    LET cs == <<Call("patch_get_by_hash", <<PyStr(hash)>>)>> IN
    IF answer.fault THEN Raises("Fault", FAULT_STRING, << >>, cs)
    ELSE Returns(answer.value, << >>, cs)

\* what has been done by r, then the ending of next
Then(r, next) ==
    [next EXCEPT !.stderr = r.stderr \o next.stderr,
                 !.calls = r.calls \o next.calls]

\* the tail of both lookups without the try / except around int()
CheckedPatchId_uncaught(got) ==
    IF got.outcome # "return" THEN got
    ELSE IF got.ret = << >>
    THEN Exits(1, got.stderr \o <<NO_PATCH_WITH_HASH>>, got.calls)
    ELSE LET n == int(got.ret.id) IN
         IF n.ok THEN Returns(PyInt(n.v), got.stderr, got.calls)
         ELSE Raises("ValueError", "invalid literal for int()", got.stderr,
                     got.calls)

\* the tail of both lookups: "if patch == {}: ..." to "return patch_id"
CheckedPatchId(got) ==
    IF got.outcome # "return" THEN got
    ELSE IF got.ret = << >>
    THEN Exits(1, got.stderr \o <<NO_PATCH_WITH_HASH>>, got.calls)
    ELSE LET n == int(got.ret.id) IN
         IF n.ok THEN Returns(PyInt(n.v), got.stderr, got.calls)
         ELSE Exits(1, got.stderr \o <<INVALID_PATCH_ID>>, got.calls)

\* patches.patch_id_from_hash(rpc, project, hash): first is how
\* rpc.patch_get_by_project_hash(project, hash) ends, second how
\* rpc.patch_get_by_hash(hash) ends when it is called
patch_id_from_hash(first, second) ==
    IF first.outcome = "raise" /\ first.exc = "Fault"
    THEN CheckedPatchId(Then(first, second))
    ELSE CheckedPatchId(first)

\* XMLRPC._patch_id_from_hash(project, hash)
XMLRPC_patch_id_from_hash(first) == CheckedPatchId(first)

PatchIdFromHash ==
    \E project \in Projects, hash \in Hashes,
       a1 \in XmlrpcPatchAnswers :
    \E a2 \in IF a1.fault THEN XmlrpcPatchAnswers ELSE {FaultAnswer} :
        /\ Ready("xmlrpc")
        /\ ~a1.fault => a2 = FaultAnswer    \* no second answer is ever asked for
        /\ Finish("patches.patch_id_from_hash",
                  [project |-> project, hash |-> hash,
                   first |-> a1, second |-> a2],
                  patch_id_from_hash(
                      XMLRPC_patch_get_by_project_hash(project, hash, a1),
                      XMLRPC_patch_get_by_hash(hash, a2)))
        /\ UNCHANGED <<api, created, inflight>>

XmlrpcPatchIdFromHash ==
    \E project \in Projects, hash \in Hashes, a1 \in XmlrpcPatchAnswers :
        /\ Ready("xmlrpc")
        /\ Finish("XMLRPC._patch_id_from_hash",
                  [project |-> project, hash |-> hash,
                   first |-> a1, second |-> FaultAnswer],
                  XMLRPC_patch_id_from_hash(
                      XMLRPC_patch_get_by_project_hash(project, hash, a1)))
        /\ UNCHANGED <<api, created, inflight>>


----------------------------------------------------------------------------
(* XMLRPC._decode_patch and XMLRPC.patch_get *)

\* xmlrpclib.Binary: bytes, each a number 0..255
Binary(bytes) == [t |-> "Binary", data |-> bytes]

\* the characters of the code points the model uses
CodePointChar(n) ==
    CASE n = 102 -> "f" [] n = 105 -> "i" [] n = 120 -> "x"
      [] n = 233 -> "e-acute" [] OTHER -> "?"

RECURSIVE Utf8Decode(_)
\* bytes.decode('utf-8') for one- and two-byte sequences:
\* [ok, text], ok false for UnicodeDecodeError
Utf8Decode(bytes) ==
    IF bytes = << >> THEN [ok |-> TRUE, text |-> << >>]
    ELSE IF bytes[1] < 128
    THEN LET rest == Utf8Decode(Tail(bytes)) IN
         [ok |-> rest.ok, text |-> <<CodePointChar(bytes[1])>> \o rest.text]
    ELSE IF /\ bytes[1] \in 194..223
            /\ Len(bytes) >= 2
            /\ bytes[2] \in 128..191
    THEN LET rest == Utf8Decode(SubSeq(bytes, 3, Len(bytes))) IN
         [ok |-> rest.ok,
          text |-> <<CodePointChar((bytes[1] - 192) * 64 + (bytes[2] - 128))>>
                   \o rest.text]
    ELSE [ok |-> FALSE, text |-> << >>]

\* XMLRPC._decode_patch: Binary values decoded, the others as they are
XMLRPC_decode_patch(patch) ==
    IF \E k \in DOMAIN patch :
           patch[k].t = "Binary" /\ ~Utf8Decode(patch[k].data).ok
    THEN Raises("UnicodeDecodeError", "invalid utf-8", << >>, << >>)
    ELSE Returns([k \in DOMAIN patch |->
                     IF patch[k].t = "Binary"
                     THEN PyStr(Utf8Decode(patch[k].data).text)
                     ELSE patch[k]], << >>, << >>)

UNABLE_TO_FETCH == "Unable to fetch patch; does it exist?"

\* XMLRPC.patch_get
XMLRPC_patch_get(patch_id, answer) ==
    LET cs == <<Call("patch_get", <<PyInt(patch_id)>>)>> IN
    IF answer.fault THEN Raises("Fault", FAULT_STRING, << >>, cs)
    ELSE IF answer.value = << >>
    THEN Raises("APIError", UNABLE_TO_FETCH, << >>, cs)
    ELSE Then(Returns(PyNone, << >>, cs), XMLRPC_decode_patch(answer.value))

PatchIds == {1, 999}

\* a patch record as the legacy server sends it, all its fields present
WirePatch(id, name, filename) ==
    [id |-> PyInt(id), date |-> PyStr(<<"d">>), filename |-> filename,
     msgid |-> PyStr(<<"m">>), name |-> name,
     project |-> PyStr(<<"p", "w">>), project_id |-> PyInt(1),
     state |-> PyStr(<<"N", "e", "w">>), state_id |-> PyInt(1),
     archived |-> PyBool(FALSE), submitter |-> PyStr(<<"A">>),
     submitter_id |-> PyInt(5), delegate |-> PyStr(<< >>),
     delegate_id |-> PyInt(0), commit_ref |-> PyStr(<< >>),
     hash |-> PyStr(<< >>)]

\* legacy patch records with text and Binary fields, and one from a server
\* that sends neither a commit_ref nor a hash
XmlrpcWirePatches ==
    {<< >>,
     WirePatch(1, PyStr(<<"f", "i", "x">>), PyStr(<<"f", "i", "x">>)),
     WirePatch(1, Binary(<<102, 195, 169>>), Binary(<<102, 105, 120>>)),
     WirePatch(1, Binary(<<102, 195>>), PyStr(<<"f", "i", "x">>)),
     [id |-> PyInt(1), name |-> Binary(<<102, 105, 120>>),
      filename |-> PyStr(<<"f", "i", "x">>)]}

XmlrpcPatchGet ==
    \E patch_id \in PatchIds,
       answer \in {FaultAnswer} \cup {Answer(w) : w \in XmlrpcWirePatches} :
        /\ Ready("xmlrpc")
        /\ Finish("XMLRPC.patch_get",
                  [patch_id |-> patch_id, answer |-> answer],
                  XMLRPC_patch_get(patch_id, answer))
        /\ UNCHANGED <<api, created, inflight>>

----------------------------------------------------------------------------
(* XMLRPC.patch_list *)

\* d with d[k] = v, as the assignment d[k] = v leaves a dict
With(d, k, v) ==
    [x \in (DOMAIN d) \cup {k} |-> IF x = k THEN v ELSE d[x]]

\* "Note: No State found matching %s*, ignoring filter\n" % state
NoStateNote(state) ==
    <<"Note: No State found matching ">> \o state \o <<"*, ignoring filter">>

\* "Note: No Project found matching %s, ignoring filter\n" % project
NoProjectNote(project) ==
    <<"Note: No Project found matching ">> \o project
        \o <<", ignoring filter">>

\* "Note: Nobody found matching *%s*\n" % name
NobodyNote(name) == <<"Note: Nobody found matching *">> \o name \o <<"*">>

\* XMLRPC.person_list: the remote call, its fault passed on as it is
XMLRPC_person_list(search_str, max_count, answer) ==
    LET cs == <<Call("person_list",
                     <<PyStr(search_str), PyInt(max_count)>>)>> IN
    IF answer.fault THEN Raises("Fault", FAULT_STRING, << >>, cs)
    ELSE Returns(answer.value, << >>, cs)

\* XMLRPC._person_ids_by_name(name): the ids in the order of the answer
XMLRPC_person_ids_by_name(name, answer) ==
    IF Len(name) = 0 THEN Returns(<< >>, << >>, << >>)
    ELSE LET people == XMLRPC_person_list(name, 0, answer) IN
         IF people.outcome # "return" THEN people
         ELSE Returns([i \in 1..Len(people.ret) |-> people.ret[i].id],
                      << >>, people.calls)

\* the filters of lines 247-262: max_count, archived, msgid, name, hash
BaseFilters(archived, msgid, name, hash, max_count) ==
    LET f1 == IF PyTruthy(max_count)
              THEN With(<< >>, "max_count", max_count) ELSE << >>
        f2 == IF archived.t # "None"
              THEN With(f1, "archived", archived) ELSE f1
        f3 == IF PyTruthy(msgid) THEN With(f2, "msgid", msgid) ELSE f2
        f4 == IF PyTruthy(name)
              THEN With(f3, "name__icontains", name) ELSE f3
    IN  IF PyTruthy(hash) THEN With(f4, "hash", hash) ELSE f4

\* the resolved id put into the filters whatever it is
WithStateId_zero_kept(sofar, state, answer) ==
    IF sofar.outcome # "return" \/ state.t = "None" THEN sofar
    ELSE LET got == Then(sofar, XMLRPC_state_id_by_name(state.s, answer)) IN
         IF got.outcome # "return" THEN got
         ELSE Returns(With(sofar.ret, "state_id", got.ret), got.stderr,
                      got.calls)

\* lines 264-272: so far holds the filters as its value
WithStateId(sofar, state, answer) ==
    IF sofar.outcome # "return" \/ state.t = "None" THEN sofar
    ELSE LET got == Then(sofar, XMLRPC_state_id_by_name(state.s, answer)) IN
         IF got.outcome # "return" THEN got
         ELSE IF got.ret = PyInt(0)
         THEN Returns(sofar.ret, got.stderr \o NoStateNote(state.s),
                      got.calls)
         ELSE Returns(With(sofar.ret, "state_id", got.ret), got.stderr,
                      got.calls)

\* lines 274-282
WithProjectId(sofar, project, answer) ==
    IF sofar.outcome # "return" \/ project.t = "None" THEN sofar
    ELSE LET got == Then(sofar,
                         XMLRPC_project_id_by_name(project.s, answer)) IN
         IF got.outcome # "return" THEN got
         ELSE IF got.ret = PyInt(0)
         THEN Returns(sofar.ret, got.stderr \o NoProjectNote(project.s),
                      got.calls)
         ELSE Returns(With(sofar.ret, "project_id", got.ret), got.stderr,
                      got.calls)

\* self._client.patch_list(filters), its result added to the patches of
\* sofar; a fault is passed on as it is
ClientPatchList(sofar, filters, answer) ==
    LET cs == sofar.calls \o <<Call("patch_list", <<filters>>)>> IN
    IF answer.fault THEN Raises("Fault", FAULT_STRING, sofar.stderr, cs)
    ELSE Returns(sofar.ret \o answer.value, sofar.stderr, cs)

RECURSIVE ListPerPerson_first_only(_, _, _, _, _, _)
\* the loop leaving after its first iteration
ListPerPerson_first_only(sofar, filters, key, ids, answers, i) ==
    IF i > Len(ids) \/ i > 1 \/ sofar.outcome # "return" THEN sofar
    ELSE ListPerPerson_first_only(
             ClientPatchList(sofar, With(filters, key, PyInt(ids[i])),
                             answers[i]),
             filters, key, ids, answers, i + 1)

RECURSIVE ListPerPerson(_, _, _, _, _, _)
\* "for person_id in person_ids: filters[key] = person_id;
\*  patches += self._client.patch_list(filters)"
ListPerPerson(sofar, filters, key, ids, answers, i) ==
    IF i > Len(ids) \/ sofar.outcome # "return" THEN sofar
    ELSE ListPerPerson(
             ClientPatchList(sofar, With(filters, key, PyInt(ids[i])),
                             answers[i]),
             filters, key, ids, answers, i + 1)

\* "[self._decode_patch(patch) for patch in patches]"
DecodeAll(got) ==
    IF got.outcome # "return" THEN got
    ELSE IF \E i \in 1..Len(got.ret) :
                XMLRPC_decode_patch(got.ret[i]).outcome # "return"
    THEN Raises("UnicodeDecodeError", "invalid utf-8", got.stderr, got.calls)
    ELSE Returns([i \in 1..Len(got.ret) |->
                     XMLRPC_decode_patch(got.ret[i]).ret],
                 got.stderr, got.calls)

PERSON_IDS_ARGS ==
    "_person_ids_by_name() takes 2 positional arguments but 3 were given"

\* lines 290-301: the submitter branch
ListBySubmitter(sofar, submitter, people, patches) ==
    LET ids == Then(sofar, XMLRPC_person_ids_by_name(submitter.s, people))
        start == Returns(<< >>, ids.stderr, ids.calls)
    IN  IF ids.outcome # "return" THEN ids
        ELSE IF Len(ids.ret) = 0
        THEN DecodeAll(Returns(<< >>,
                               ids.stderr \o NobodyNote(submitter.s),
                               ids.calls))
        ELSE DecodeAll(ListPerPerson(start, sofar.ret, "submitter_id",
                                     ids.ret, patches, 1))

\* lines 303-314: the delegate branch; the lookup is called with self
\* passed twice, which Python rejects before the method body runs
ListByDelegate(sofar, delegate, people, patches) ==
    Raises("TypeError", PERSON_IDS_ARGS, sofar.stderr, sofar.calls)

\* XMLRPC.patch_list; answers: how state_list, project_list, person_list
\* and the successive patch_list calls of the server answer
XMLRPC_patch_list(project, submitter, delegate, state, archived, msgid, name, hash, max_count, answers) ==
    LET f0 == Returns(BaseFilters(archived, msgid, name, hash, max_count),
                      << >>, << >>)
        f1 == WithStateId(f0, state, answers.states)
        f2 == WithProjectId(f1, project, answers.projects)
    IN  IF f2.outcome # "return" THEN f2
        ELSE IF submitter.t # "None"
        THEN ListBySubmitter(f2, submitter, answers.people, answers.patches)
        ELSE IF delegate.t # "None"
        THEN ListByDelegate(f2, delegate, answers.people, answers.patches)
        ELSE DecodeAll(ClientPatchList(Returns(<< >>, f2.stderr, f2.calls),
                                       f2.ret, answers.patches[1]))

\* the inputs of patch_list
ACCEPTED == <<"A", "c", "c", "e", "p", "t", "e", "d">>
ListStates == {PyNone, PyStr(ACCEPTED)}
ListStateAnswers ==
    {FaultAnswer, Answer(<< >>), Answer(<<[id |-> 3, name |-> ACCEPTED]>>)}
ListProjects == {PyNone, PyStr(<<"p", "w">>)}
ListProjectAnswers ==
    {FaultAnswer, Answer(<< >>),
     Answer(<<[id |-> 1, linkname |-> <<"p", "w">>]>>)}
PersonNames == {PyNone, PyStr(<<"j", "k">>)}
PersonRecords ==
    {[id |-> 1, name |-> <<"j", "k">>], [id |-> 4, name |-> <<"j", "k", "2">>]}
\* person lists of the remote side: no person twice
PeopleAnswers ==
    {FaultAnswer}
        \cup {Answer(l) : l \in {s \in SeqsUpTo(PersonRecords, MaxMatches) :
                                    \A i, j \in 1..Len(s) :
                                        s[i] = s[j] => i = j}}
ListedPatches ==
    {<<WirePatch(1, Binary(<<102, 105, 120>>), PyStr(<<"f">>))>>,
     <<WirePatch(1, Binary(<<102, 105, 120>>), PyStr(<<"f">>)),
       [id |-> PyInt(2), name |-> PyStr(<<"f", "i", "x">>)]>>}
PatchListAnswers == {FaultAnswer} \cup {Answer(l) : l \in ListedPatches}
\* the other filters: none of them given, or archived, name and hash given
OtherFilters ==
    {[archived |-> PyNone, msgid |-> PyNone, name |-> PyNone,
      hash |-> PyNone, max_count |-> PyNone],
     [archived |-> PyBool(FALSE), msgid |-> PyNone,
      name |-> PyStr(<<"f", "i", "x">>), hash |-> PyStr(<<"6", "9", "8">>),
      max_count |-> PyNone]}

\* how many list calls the answers are for: one without a person filter,
\* one per person found with one
ListCallsAskedFor(submitter, delegate, people) ==
    IF submitter.t = "None" /\ delegate.t = "None" THEN 1
    ELSE IF people.fault THEN 0 ELSE Len(people.value)

XmlrpcPatchList ==
    \E state \in ListStates, project \in ListProjects, o \in OtherFilters,
       submitter \in PersonNames, delegate \in PersonNames :
    \E sa \in ListStateAnswers, pa \in ListProjectAnswers :
        /\ Ready("xmlrpc")
        /\ state.t = "None" => sa = FaultAnswer
        /\ (project.t = "None" \/ (state.t # "None" /\ sa.fault))
              => pa = FaultAnswer
        /\ \E people \in PeopleAnswers,
              patches \in [1..MaxMatches -> PatchListAnswers] :
              LET answers == [states |-> sa, projects |-> pa,
                              people |-> people, patches |-> patches]
                  r == XMLRPC_patch_list(project, submitter, delegate, state,
                                         o.archived, o.msgid, o.name, o.hash,
                                         o.max_count, answers)
              IN  /\ (submitter.t = "None" /\ delegate.t = "None")
                         => people = FaultAnswer
                  /\ \A i \in 1..MaxMatches :
                         ( \/ i > ListCallsAskedFor(submitter, delegate,
                                                    people)
                           \/ \E j \in 1..(i - 1) : patches[j].fault )
                         => patches[i] = FaultAnswer
                  /\ Finish("XMLRPC.patch_list",
                            [project |-> project, submitter |-> submitter,
                             delegate |-> delegate, state |-> state,
                             other |-> o, answers |-> answers],
                            ListResult(r))
        /\ UNCHANGED <<api, created, inflight>>

----------------------------------------------------------------------------
(* REST transport: _generate_headers, _get, _list, _detail *)

VERSION == "0.0.0"

\* str(v) as an f-string renders it
Str(v) == IF v = None THEN "None" ELSE v

\* REST._generate_headers (the base64 text is written b64(...))
REST_generate_headers(a, additional) ==
    LET agent == "User-Agent" :> <<"pwclient (", VERSION, ")">>
        auth == IF Truthy(a.username)
                THEN "Authorization" :>
                         <<"Basic ", "b64(", a.username, ":",
                           Str(a.password), ")">>
                ELSE << >>
    IN  additional @@ auth @@ agent

Request(method, url, headers) ==
    [method |-> method, url |-> url, headers |-> headers]

\* f'{url}?{urllib.parse.urlencode(params)}' when params is not empty
Url(path, params) ==
    [path |-> path, query |-> IF PyTruthy(params) THEN params ELSE << >>]

RECURSIVE DecimalText(_)
\* an integer as an f-string renders it
DecimalText(n) ==
    IF n < 10 THEN <<CASE n = 0 -> "0" [] n = 1 -> "1" [] n = 2 -> "2"
                       [] n = 3 -> "3" [] n = 4 -> "4" [] n = 5 -> "5"
                       [] n = 6 -> "6" [] n = 7 -> "7" [] n = 8 -> "8"
                       [] n = 9 -> "9">>
    ELSE DecimalText(n \div 10) \o DecimalText(n % 10)

\* HTTP answers: 200 with a JSON body and headers, or an error status
HttpOk(json, headers) ==
    [status |-> 200, json |-> json, text |-> "", headers |-> headers]
HttpError(code) ==
    [status |-> code, json |-> << >>, text |-> "error page", headers |-> << >>]

HTTP_OK == 200
HTTP_NOT_FOUND == 404
HTTP_SERVER_ERROR == 500

\* what resp.read() gives: bytes holding a JSON text
Bytes(json) == [kind |-> "bytes", json |-> json]
\* the {} that _get returns for a 404
EmptyDict == [kind |-> "dict", json |-> << >>]

\* the request REST._get builds
GetRequest(a, url) == Request("GET", url, REST_generate_headers(a, << >>))

\* REST._get: returns [data, headers]
REST_get(a, url, resp) ==
    LET req == <<GetRequest(a, url)>> IN
    IF resp.status = HTTP_OK
    THEN Returns([data |-> Bytes(resp.json), headers |-> resp.headers],
                 << >>, req)
    ELSE IF resp.status = HTTP_NOT_FOUND
    THEN Returns([data |-> EmptyDict, headers |-> << >>], << >>, req)
    ELSE Exits(1, <<"Request failed\n\n", "Response:\n", resp.text>>, req)

\* json.loads(data): TypeError for anything but str or bytes
json_loads(got) ==
    IF got.outcome # "return" THEN got
    ELSE IF got.ret.data.kind = "bytes"
    THEN Returns(got.ret.data.json, got.stderr, got.calls)
    ELSE Raises("TypeError",
                "the JSON object must be str, bytes or bytearray, not dict",
                got.stderr, got.calls)

\* the URL REST._list builds (resource_id 0 for None)
ListUrl(a, resource_type, params, resource_id, subresource_type) ==
    LET base == a.server \o <<"/", resource_type, "/">>
        path == IF resource_id # 0
                THEN base \o DecimalText(resource_id)
                          \o <<"/", subresource_type, "/">>
                ELSE base
    IN  Url(path, params)

\* REST._list(resource_type, params, resource_id=, subresource_type=):
\* one GET, its body parsed; the response headers are dropped
REST_list(a, resource_type, params, resource_id, subresource_type, resp) ==
    json_loads(REST_get(a, ListUrl(a, resource_type, params, resource_id,
                                   subresource_type), resp))

\* REST._detail(resource_type, resource_id, params, subresource_type=,
\* subresource_id=)
REST_detail(a, resource_type, resource_id, params, subresource_type, subresource_id, resp) ==
    LET base == a.server \o <<"/", resource_type, "/">>
                    \o DecimalText(resource_id) \o <<"/">>
        path == IF subresource_type # None
                THEN base \o <<subresource_type, "/">>
                          \o DecimalText(subresource_id) \o <<"/">>
                ELSE base
    IN  json_loads(REST_get(a, Url(path, params), resp))


----------------------------------------------------------------------------
(* REST._patch_to_dict and the patch lookups of the REST backend *)

\* "x or ''"
OrEmpty(x) == IF PyTruthy(x) THEN x ELSE PyStr(<< >>)

\* _format_person
FormatPerson(person) ==
    IF ~PyTruthy(person) THEN PyStr(<< >>)
    ELSE IF PyTruthy(person.name)
    THEN PyStr(person.name.s \o <<" ", "<">> \o person.email.s \o <<">">>)
    ELSE person.email

\* _format_user
FormatUser(user) == IF ~PyTruthy(user) THEN PyStr(<< >>) ELSE user.username

\* the keys _patch_to_dict subscripts (filename is read with .get)
PatchKeysRead ==
    {"id", "date", "msgid", "name", "project", "state", "archived",
     "submitter", "delegate", "commit_ref", "hash"}

IsDict(x) == "t" \notin DOMAIN x

\* REST._patch_to_dict
REST_patch_to_dict(obj) ==
    IF ~(PatchKeysRead \subseteq DOMAIN obj)
    THEN Raises("KeyError", "missing key", << >>, << >>)
    ELSE IF ~IsDict(obj.project) \/ ~IsDict(obj.submitter)
    THEN Raises("TypeError", "not subscriptable", << >>, << >>)
    ELSE Returns(
        [id |-> obj.id,
         date |-> obj.date,
         filename |-> IF "filename" \in DOMAIN obj
                      THEN OrEmpty(obj.filename) ELSE PyStr(<< >>),
         msgid |-> obj.msgid,
         name |-> obj.name,
         project |-> obj.project.name,
         project_id |-> obj.project.id,
         state |-> obj.state,
         state_id |-> PyStr(<< >>),
         archived |-> obj.archived,
         submitter |-> FormatPerson(obj.submitter),
         submitter_id |-> obj.submitter.id,
         delegate |-> FormatUser(obj.delegate),
         delegate_id |-> IF PyTruthy(obj.delegate) THEN obj.delegate.id
                         ELSE PyStr(<< >>),
         commit_ref |-> OrEmpty(obj.commit_ref),
         hash |-> OrEmpty(obj.hash)], << >>, << >>)

\* patch objects of the REST API
RestPatch(id, delegate, commit_ref, hash) ==
    [id |-> id, date |-> PyStr(<<"d">>), msgid |-> PyStr(<<"m">>),
     name |-> PyStr(<<"f", "i", "x">>),
     project |-> [id |-> PyInt(1), name |-> PyStr(<<"p", "w">>)],
     state |-> PyStr(<<"n", "e", "w">>), archived |-> PyBool(FALSE),
     submitter |-> [id |-> PyInt(5), name |-> PyStr(<<"A">>),
                    email |-> PyStr(<<"a", "@", "b">>)],
     delegate |-> delegate, commit_ref |-> commit_ref, hash |-> hash]

RestPatches ==
    {RestPatch(PyInt(1), PyNone, PyNone, PyStr(<<"6", "9", "8">>)),
     RestPatch(PyInt(2), [id |-> PyInt(7), username |-> PyStr(<<"u">>)],
               PyStr(<<"c">>), PyStr(<<"6", "9", "8">>))
         @@ [filename |-> PyStr(<<"f">>)],
     RestPatch(PyStr(<<"x">>), PyNone, PyNone, PyNone)}

\* REST.patch_get
REST_patch_get(a, patch_id, resp) ==
    LET patch == REST_detail(a, "patches", patch_id, << >>, None, 0, resp) IN
    IF patch.outcome # "return" THEN patch
    ELSE Then(patch, REST_patch_to_dict(patch.ret))

\* the tail of both hash lookups with "if len(patches) == 0: return {}"
OnlyPatch_first_of_many(patches) ==
    IF patches.outcome # "return" THEN patches
    ELSE IF Len(patches.ret) = 0
    THEN Returns(<< >>, patches.stderr, patches.calls)
    ELSE Then(patches, REST_patch_to_dict(patches.ret[1]))

\* the tail of both hash lookups: "if len(patches) != 1: return {}"
OnlyPatch(patches) ==
    IF patches.outcome # "return" THEN patches
    ELSE IF Len(patches.ret) # 1
    THEN Returns(<< >>, patches.stderr, patches.calls)
    ELSE Then(patches, REST_patch_to_dict(patches.ret[1]))

\* REST.patch_get_by_hash
REST_patch_get_by_hash(a, hash, resp) ==
    OnlyPatch(REST_list(a, "patches", [hash |-> hash], 0, None, resp))

\* REST.patch_get_by_project_hash
REST_patch_get_by_project_hash(a, project, hash, resp) ==
    OnlyPatch(REST_list(a, "patches", [project |-> project, hash |-> hash],
                        0, None, resp))

\* what the REST API answers a detail request with
DetailAnswers ==
    {HttpOk(w, << >>) : w \in RestPatches}
        \cup {HttpError(HTTP_NOT_FOUND), HttpError(HTTP_SERVER_ERROR)}

\* what the REST API answers a hash query with (one page)
MatchAnswers ==
    {HttpOk(l, << >>) : l \in SeqsUpTo(RestPatches, MaxMatches)}
        \cup {HttpError(HTTP_NOT_FOUND), HttpError(HTTP_SERVER_ERROR)}

RestPatchGet ==
    \E patch_id \in PatchIds, resp \in DetailAnswers :
        /\ Ready("rest")
        /\ Finish("REST.patch_get", [patch_id |-> patch_id, resp |-> resp],
                  REST_patch_get(api, patch_id, resp))
        /\ UNCHANGED <<api, created, inflight>>

RestPatchGetByHash ==
    \E hash \in Hashes, resp \in MatchAnswers :
        /\ Ready("rest")
        /\ Finish("REST.patch_get_by_hash", [hash |-> hash, resp |-> resp],
                  REST_patch_get_by_hash(api, hash, resp))
        /\ UNCHANGED <<api, created, inflight>>

RestPatchGetByProjectHash ==
    \E project \in Projects, hash \in Hashes, resp \in MatchAnswers :
        /\ Ready("rest")
        /\ Finish("REST.patch_get_by_project_hash",
                  [project |-> project, hash |-> hash, resp |-> resp],
                  REST_patch_get_by_project_hash(api, project, hash, resp))
        /\ UNCHANGED <<api, created, inflight>>

\* patches.patch_id_from_hash(rpc, project, hash), rpc the REST backend
RestPatchIdFromHash ==
    \E project \in Projects, hash \in Hashes, resp \in MatchAnswers :
        /\ Ready("rest")
        /\ Finish("patches.patch_id_from_hash",
                  [project |-> project, hash |-> hash, resp |-> resp],
                  patch_id_from_hash(
                      REST_patch_get_by_project_hash(api, project, hash, resp),
                      REST_patch_get_by_hash(api, hash,
                                             HttpError(HTTP_NOT_FOUND))))
        /\ UNCHANGED <<api, created, inflight>>


----------------------------------------------------------------------------
(* REST._list against a paginated collection: the request is sent, then   *)
(* the answer comes back and the call runs to its end                     *)

Items == {[id |-> PyInt(1)], [id |-> PyInt(2)]}
\* a page of the collection: no item twice
Pages ==
    {s \in SeqsUpTo(Items, MaxItems) :
         \A i, j \in 1..Len(s) : s[i] = s[j] => i = j}

\* the pages of a collection, each but the last linking to the next
Chains == UNION {[1..n -> Pages] : n \in 1..MaxPages}

\* the Link header of page k
LinkHeader(a, chain, k) ==
    IF k < Len(chain)
    THEN <<[name |-> "Link", rel |-> "next",
            url |-> Url(a.server \o <<"/", "patches", "/">>,
                        [page |-> PyInt(k + 1)])]>>
    ELSE << >>

\* the answer to the request for page k
PageAnswer(a, chain, k) == HttpOk(chain[k], LinkHeader(a, chain, k))

RECURSIVE Flatten(_)
\* the items of all pages, in page order
Flatten(chain) ==
    IF chain = << >> THEN << >> ELSE Head(chain) \o Flatten(Tail(chain))

RestListSend ==
    \E chain \in Chains :
        LET req == GetRequest(api, ListUrl(api, "patches", << >>, 0, None)) IN
        /\ Ready("rest")
        /\ op' = "REST._list"
        /\ inp' = [resource_type |-> "patches", params |-> << >>,
                   chain |-> chain, answers |-> << >>]
        /\ outcome' = "pending"
        /\ calls' = <<req>>
        /\ inflight' = <<req>>
        /\ UNCHANGED <<api, exc, msg, status, ret, stderr, created>>

RestListReceive ==
    \E code \in {HTTP_OK, HTTP_NOT_FOUND, HTTP_SERVER_ERROR} :
        LET k == Len(calls)
            resp == IF code = HTTP_OK THEN PageAnswer(api, inp.chain, k)
                    ELSE HttpError(code)
        IN  /\ op = "REST._list"
            /\ outcome = "pending"
            /\ Finish("REST._list", [inp EXCEPT !.answers = Append(@, resp)],
                      ListResult(REST_list(api, inp.resource_type,
                                           inp.params, 0, None, resp)))
            /\ inflight' = << >>
            /\ UNCHANGED <<api, created>>

----------------------------------------------------------------------------
(* REST.patch_list *)

\* the state as it is given, not slugified
Slug_as_given(s) == s

\* state.lower().replace(' ', '-')
Slug(s) ==
    [i \in 1..Len(s) |-> IF LowerChar(s[i]) = " " THEN "-"
                         ELSE LowerChar(s[i])]

MAX_COUNT_UNSUPPORTED == "The max_count parameter is not supported"

\* "[self._patch_to_dict(patch) for patch in patches]": the first
\* conversion that raises ends the operation
PatchesToDicts(got) ==
    IF got.outcome # "return" THEN got
    ELSE LET rs == [i \in 1..Len(got.ret) |-> REST_patch_to_dict(got.ret[i])]
             bad == {i \in 1..Len(rs) : rs[i].outcome # "return"}
         IN  IF bad # {}
             THEN Then(got, rs[CHOOSE i \in bad : \A j \in bad : i <= j])
             ELSE Returns([i \in 1..Len(rs) |-> rs[i].ret], got.stderr,
                          got.calls)

\* REST.patch_list; submitter, delegate, archived, msgid and name are
\* accepted and not used
REST_patch_list(a, project, submitter, delegate, state, archived, msgid, name, hash, max_count, resp) ==
    IF PyTruthy(max_count)
    THEN Raises("NotImplementedError", MAX_COUNT_UNSUPPORTED, << >>, << >>)
    ELSE LET f1 == IF state.t # "None"
                   THEN With(<< >>, "state", Slug(state.s)) ELSE << >>
             f2 == IF project.t # "None"
                   THEN With(f1, "project", project.s) ELSE f1
             f3 == IF hash.t # "None" THEN With(f2, "hash", hash.s) ELSE f2
         IN  PatchesToDicts(REST_list(a, "patches", f3, 0, None, resp))

UNDER_REVIEW ==
    <<"U", "n", "d", "e", "r", " ", "R", "e", "v", "i", "e", "w">>

RestListStates == {PyNone, PyStr(ACCEPTED), PyStr(UNDER_REVIEW)}

RestPatchList ==
    \E state \in RestListStates, project \in ListProjects,
       submitter \in PersonNames, max_count \in {PyNone, PyInt(5)},
       resp \in MatchAnswers :
        /\ Ready("rest")
        /\ PyTruthy(max_count) => resp = HttpError(HTTP_NOT_FOUND)
        /\ Finish("REST.patch_list",
                  [project |-> project, submitter |-> submitter,
                   state |-> state, max_count |-> max_count, resp |-> resp],
                  ListResult(REST_patch_list(api, project, submitter, PyNone,
                                             state, PyNone, PyNone, PyNone,
                                             PyNone, max_count, resp)))
        /\ UNCHANGED <<api, created, inflight>>

----------------------------------------------------------------------------
(* REST.state_list and REST.state_get *)

STATES_NOT_EXPOSED == "The REST API does not expose state objects"

\* a state_list that answers with an empty list
REST_state_list_empty(search_str, max_count) == Returns(<< >>, << >>, << >>)

\* REST.state_list
REST_state_list(search_str, max_count) ==
    Raises("NotImplementedError", STATES_NOT_EXPOSED, << >>, << >>)

\* REST.state_get
REST_state_get(state_id) ==
    Raises("NotImplementedError", STATES_NOT_EXPOSED, << >>, << >>)

StateIds == {PyNone, PyInt(0), PyInt(1)}

RestStateList ==
    \E search_str \in {PyNone, PyStr(<< >>), PyStr(<<"N", "e", "w">>)},
       max_count \in {PyInt(0), PyInt(5)} :
        /\ Ready("rest")
        /\ Finish("REST.state_list",
                  [search_str |-> search_str, max_count |-> max_count],
                  ListResult(REST_state_list(search_str, max_count)))
        /\ UNCHANGED <<api, created, inflight>>

RestStateGet ==
    \E state_id \in StateIds :
        /\ Ready("rest")
        /\ Finish("REST.state_get", [state_id |-> state_id],
                  REST_state_get(state_id))
        /\ UNCHANGED <<api, created, inflight>>

----------------------------------------------------------------------------
(* Checks: REST.check_list, REST.check_get, XMLRPC.check_list,
   XMLRPC.check_get *)

CHECKS_NEED_PATCH ==
    "The REST API does not allow listing of all checks by project; listing of checks requires a target patch"

\* the keys _check_to_dict subscripts in a check
CheckKeysRead ==
    {"id", "date", "user", "state", "target_url", "description", "context"}

\* REST._check_to_dict(obj, patch)
REST_check_to_dict(obj, patch) ==
    IF ~(CheckKeysRead \subseteq DOMAIN obj)
           \/ ~({"name", "id"} \subseteq DOMAIN patch)
    THEN Raises("KeyError", "missing key", << >>, << >>)
    ELSE IF ~IsDict(obj.user)
    THEN Raises("TypeError", "not subscriptable", << >>, << >>)
    ELSE Returns(
        [id |-> obj.id,
         date |-> obj.date,
         patch |-> patch.name,
         patch_id |-> patch.id,
         user |-> IF PyTruthy(obj.user) THEN obj.user.username
                  ELSE PyStr(<< >>),
         user_id |-> obj.user.id,
         state |-> obj.state,
         target_url |-> obj.target_url,
         description |-> obj.description,
         context |-> obj.context], << >>, << >>)

\* "[self._check_to_dict(check, patch) for check in checks]"
ChecksToDicts(got, patch) ==
    IF got.outcome # "return" THEN got
    ELSE LET rs == [i \in 1..Len(got.ret) |->
                       REST_check_to_dict(got.ret[i], patch)]
             bad == {i \in 1..Len(rs) : rs[i].outcome # "return"}
         IN  IF bad # {}
             THEN Then(got, rs[CHOOSE i \in bad : \A j \in bad : i <= j])
             ELSE Returns([i \in 1..Len(rs) |-> rs[i].ret], got.stderr,
                          got.calls)

\* a check_list that goes on without a patch
REST_check_list_unscoped(a, patch_id, user, first, second) ==
    LET filters == IF user.t # "None" THEN With(<< >>, "user", user.s)
                   ELSE << >>
        n == IF patch_id.t = "int" THEN patch_id.n ELSE 0
        patch == REST_detail(a, "patches", n, << >>, None, 0, first)
    IN  IF patch.outcome # "return" THEN patch
        ELSE ChecksToDicts(
                 Then(patch, REST_list(a, "patches", filters, n,
                                       "checks", second)),
                 patch.ret)

\* REST.check_list(patch_id, user); first answers the detail request,
\* second the list request
REST_check_list(a, patch_id, user, first, second) ==
    IF ~PyTruthy(patch_id)
    THEN Raises("NotImplementedError", CHECKS_NEED_PATCH, << >>, << >>)
    ELSE LET filters == IF user.t # "None" THEN With(<< >>, "user", user.s)
                        ELSE << >>
             patch == REST_detail(a, "patches", patch_id.n, << >>, None, 0,
                                  first)
         IN  IF patch.outcome # "return" THEN patch
             ELSE ChecksToDicts(
                      Then(patch, REST_list(a, "patches", filters, patch_id.n,
                                            "checks", second)),
                      patch.ret)

\* REST.check_get(patch_id, check_id); first answers the patch request,
\* second the check request
REST_check_get(a, patch_id, check_id, first, second) ==
    IF ~PyTruthy(patch_id)
    THEN Raises("NotImplementedError", CHECKS_NEED_PATCH, << >>, << >>)
    ELSE LET patch == REST_detail(a, "patches", patch_id.n, << >>, None, 0,
                                  first)
             check == Then(patch, REST_detail(a, "patches", patch_id.n, << >>,
                                              "checks", check_id, second))
         IN  IF patch.outcome # "return" THEN patch
             ELSE IF check.outcome # "return" THEN check
             ELSE Then(check, REST_check_to_dict(check.ret, patch.ret))

\* XMLRPC.check_list(patch_id, user)
XMLRPC_check_list(patch_id, user, answer) ==
    LET f1 == IF patch_id.t # "None" THEN With(<< >>, "patch_id", patch_id)
              ELSE << >>
        f2 == IF user.t # "None" THEN With(f1, "user", user) ELSE f1
        cs == <<Call("check_list", <<f2>>)>>
    IN  IF answer.fault THEN Raises("Fault", FAULT_STRING, << >>, cs)
        ELSE Returns(answer.value, << >>, cs)

\* XMLRPC.check_get(patch_id, check_id): patch_id is not used
XMLRPC_check_get(patch_id, check_id, answer) ==
    LET cs == <<Call("check_get", <<PyInt(check_id)>>)>> IN
    IF answer.fault THEN Raises("Fault", FAULT_STRING, << >>, cs)
    ELSE Returns(answer.value, << >>, cs)

\* check objects of the REST API: with a user, and with none
RestCheck(id, user) ==
    [id |-> PyInt(id), date |-> PyStr(<<"d">>), user |-> user,
     state |-> PyStr(<<"s", "u", "c", "c", "e", "s", "s">>),
     target_url |-> PyStr(<< >>), description |-> PyStr(<< >>),
     context |-> PyStr(<<"c", "i">>)]

RestChecks ==
    {RestCheck(1, [id |-> PyInt(7), username |-> PyStr(<<"u">>)]),
     RestCheck(2, PyNone)}

CheckListAnswers ==
    {HttpOk(l, << >>) : l \in SeqsUpTo(RestChecks, MaxItems)}
        \cup {HttpError(HTTP_NOT_FOUND), HttpError(HTTP_SERVER_ERROR)}

CheckDetailAnswers ==
    {HttpOk(c, << >>) : c \in RestChecks}
        \cup {HttpError(HTTP_NOT_FOUND), HttpError(HTTP_SERVER_ERROR)}

CheckPatchIds == {PyNone, PyInt(0), PyInt(1)}
CheckUsers == {PyNone, PyStr(<<"u">>)}
CheckIds == {1, 2}

\* checks as the legacy API returns them
XmlrpcChecks ==
    {[id |-> PyInt(1), patch_id |-> PyInt(1), user |-> PyStr(<<"u">>),
      state |-> PyStr(<<"s", "u", "c", "c", "e", "s", "s">>),
      context |-> PyStr(<<"c", "i">>)]}

RestCheckList ==
    \E patch_id \in CheckPatchIds, user \in CheckUsers,
       first \in DetailAnswers, second \in CheckListAnswers :
        LET r == REST_check_list(api, patch_id, user, first, second) IN
        /\ Ready("rest")
        /\ Len(r.calls) < 1 => first = HttpError(HTTP_NOT_FOUND)
        /\ Len(r.calls) < 2 => second = HttpError(HTTP_NOT_FOUND)
        /\ Finish("REST.check_list",
                  [patch_id |-> patch_id, user |-> user, first |-> first,
                   second |-> second], ListResult(r))
        /\ UNCHANGED <<api, created, inflight>>

RestCheckGet ==
    \E patch_id \in CheckPatchIds, check_id \in CheckIds,
       first \in DetailAnswers, second \in CheckDetailAnswers :
        LET r == REST_check_get(api, patch_id, check_id, first, second) IN
        /\ Ready("rest")
        /\ Len(r.calls) < 1 => first = HttpError(HTTP_NOT_FOUND)
        /\ Len(r.calls) < 2 => second = HttpError(HTTP_NOT_FOUND)
        /\ Finish("REST.check_get",
                  [patch_id |-> patch_id, check_id |-> check_id,
                   first |-> first, second |-> second], r)
        /\ UNCHANGED <<api, created, inflight>>

XmlrpcCheckList ==
    \E patch_id \in CheckPatchIds, user \in CheckUsers,
       answer \in {FaultAnswer}
                  \cup {Answer(l) : l \in SeqsUpTo(XmlrpcChecks, MaxItems)} :
        /\ Ready("xmlrpc")
        /\ Finish("XMLRPC.check_list",
                  [patch_id |-> patch_id, user |-> user, answer |-> answer],
                  ListResult(XMLRPC_check_list(patch_id, user, answer)))
        /\ UNCHANGED <<api, created, inflight>>

XmlrpcCheckGet ==
    \E patch_id \in CheckPatchIds, check_id \in CheckIds,
       answer \in {FaultAnswer} \cup {Answer(c) : c \in XmlrpcChecks} :
        /\ Ready("xmlrpc")
        /\ Finish("XMLRPC.check_get",
                  [patch_id |-> patch_id, check_id |-> check_id,
                   answer |-> answer],
                  XMLRPC_check_get(patch_id, check_id, answer))
        /\ UNCHANGED <<api, created, inflight>>

----------------------------------------------------------------------------
(* Updates: XMLRPC.patch_set, REST.patch_set, patches.action_update *)

NO_STATE_MATCHING == "No State found matching %s*"
ERROR_UPDATING == "Error updating patch: "
ERROR_CREATING == "Error creating check: "

\* "archived == 'yes'"
YES == <<"y", "e", "s">>

\* the params of lines 367-371 (patches.py 261-265) added to params
WithCommitAndArchived(params, archived, commit_ref) ==
    LET p == IF PyTruthy(commit_ref)
             THEN With(params, "commit_ref", commit_ref) ELSE params
    IN  IF PyTruthy(archived)
        THEN With(p, "archived", PyBool(archived = PyStr(YES))) ELSE p

\* self._client.patch_set(patch_id, params) inside try / except Fault
ClientPatchSet(sofar, patch_id, params, answer) ==
    LET cs == sofar.calls
                  \o <<Call("patch_set", <<PyInt(patch_id), params>>)>> IN
    IF answer.fault
    THEN Raises("APIError", ERROR_UPDATING \o FAULT_STRING, sofar.stderr, cs)
    ELSE Returns(answer.value, sofar.stderr, cs)

\* a patch_set that sends the update without the state it could not
\* resolve
XMLRPC_patch_set_unresolved_sent(patch_id, state, archived, commit_ref, states, set) ==
    LET got == IF PyTruthy(state)
               THEN XMLRPC_state_id_by_name(state.s, states)
               ELSE Returns(PyInt(0), << >>, << >>)
    IN  IF got.outcome # "return" THEN got
        ELSE ClientPatchSet(
                 got, patch_id,
                 WithCommitAndArchived(
                     IF PyTruthy(state) THEN With(<< >>, "state", got.ret)
                     ELSE << >>,
                     archived, commit_ref),
                 set)

\* XMLRPC.patch_set(patch_id, state, archived, commit_ref); states answers
\* the state_list call, set the patch_set call
XMLRPC_patch_set(patch_id, state, archived, commit_ref, states, set) ==
    LET got == IF PyTruthy(state)
               THEN XMLRPC_state_id_by_name(state.s, states)
               ELSE Returns(PyInt(0), << >>, << >>)
    IN  IF got.outcome # "return" THEN got
        ELSE IF PyTruthy(state) /\ got.ret = PyInt(0)
        THEN Raises("APIError", NO_STATE_MATCHING, got.stderr, got.calls)
        ELSE ClientPatchSet(
                 got, patch_id,
                 WithCommitAndArchived(
                     IF PyTruthy(state) THEN With(<< >>, "state", got.ret)
                     ELSE << >>,
                     archived, commit_ref),
                 set)

\* states.state_id_by_name(rpc, name): 0 for the empty name without a
\* call, else the id of the first state of rpc.state_list(name, 0) whose
\* name starts with name, letter case put aside, else 0
state_id_by_name(name, answer) ==
    IF Len(name) = 0 THEN Returns(PyInt(0), << >>, << >>)
    ELSE LET cs == <<Call("state_list", <<PyStr(name), PyInt(0)>>)>> IN
         IF answer.fault THEN Raises("Fault", FAULT_STRING, << >>, cs)
         ELSE Returns(PyInt(FirstStateFrom(answer.value, name, 1)), << >>, cs)

\* "Error getting information on patch ID %d\n" % patch_id
NoPatchInfoNote(patch_id) ==
    <<"Error getting information on patch ID ">> \o DecimalText(patch_id)

\* "Error: No State found matching %s*\n" % state
NoStateError(state) ==
    <<"Error: No State found matching ">> \o state \o <<"*">>

PATCH_NOT_UPDATED == "Patch not updated"

\* a set call whose fault ends the process
SetAndReport_fault_fatal(sofar, setcs, set) ==
    IF set.fault
    THEN Exits(1, sofar.stderr \o <<ERROR_UPDATING, FAULT_STRING>>, setcs)
    ELSE IF ~PyTruthy(set.value)
    THEN Returns(PyNone, sofar.stderr \o <<PATCH_NOT_UPDATED>>, setcs)
    ELSE Returns(PyNone, sofar.stderr, setcs)

\* "try: success = rpc.patch_set(...) except Fault: write; if not success:
\* write": setcs are the calls made once the set call is sent
SetAndReport(sofar, setcs, set) ==
    IF set.fault
    THEN Returns(PyNone,
                 sofar.stderr \o <<ERROR_UPDATING, FAULT_STRING,
                                   PATCH_NOT_UPDATED>>, setcs)
    ELSE IF ~PyTruthy(set.value)
    THEN Returns(PyNone, sofar.stderr \o <<PATCH_NOT_UPDATED>>, setcs)
    ELSE Returns(PyNone, sofar.stderr, setcs)

\* an update that does not look at the patch it fetched
action_update_unchecked(patch_id, state, archived, commit, get, states, set) ==
    LET cs == <<Call("patch_get", <<PyInt(patch_id)>>)>>
        fetched == Returns(PyNone, << >>, cs)
        got == IF PyTruthy(state)
               THEN Then(fetched, state_id_by_name(state.s, states))
               ELSE fetched
        params == WithCommitAndArchived(
                      IF PyTruthy(state) THEN With(<< >>, "state", got.ret)
                      ELSE << >>,
                      archived, commit)
        setcs == got.calls \o <<Call("patch_set", <<PyInt(patch_id), params>>)>>
    IN  IF get.fault THEN Raises("Fault", FAULT_STRING, << >>, cs)
        ELSE IF got.outcome # "return" THEN got
        ELSE IF PyTruthy(state) /\ got.ret = PyInt(0)
        THEN Exits(1, got.stderr \o NoStateError(state.s), got.calls)
        ELSE SetAndReport(got, setcs, set)

\* patches.action_update(rpc, patch_id, state, archived, commit), rpc the
\* server proxy; get, states and set answer rpc.patch_get, rpc.state_list
\* and rpc.patch_set
action_update(patch_id, state, archived, commit, get, states, set) ==
    LET cs == <<Call("patch_get", <<PyInt(patch_id)>>)>>
        fetched == Returns(PyNone, << >>, cs)
        got == IF PyTruthy(state)
               THEN Then(fetched, state_id_by_name(state.s, states))
               ELSE fetched
        params == WithCommitAndArchived(
                      IF PyTruthy(state) THEN With(<< >>, "state", got.ret)
                      ELSE << >>,
                      archived, commit)
        setcs == got.calls \o <<Call("patch_set", <<PyInt(patch_id), params>>)>>
    IN  IF get.fault THEN Raises("Fault", FAULT_STRING, << >>, cs)
        ELSE IF get.value = << >>
        THEN Exits(1, NoPatchInfoNote(patch_id), cs)
        ELSE IF got.outcome # "return" THEN got
        ELSE IF PyTruthy(state) /\ got.ret = PyInt(0)
        THEN Exits(1, got.stderr \o NoStateError(state.s), got.calls)
        ELSE SetAndReport(got, setcs, set)

\* the request REST._put builds
PutRequest(a, url, data) ==
    [method |-> "PATCH", url |-> url,
     headers |-> REST_generate_headers(
                     a, "Content-Type" :> <<"application/json">>),
     data |-> data]

\* REST._put: returns [data, headers]; every HTTP error ends the process
REST_put(a, url, data, resp) ==
    LET req == <<PutRequest(a, url, data)>> IN
    IF resp.status = HTTP_OK
    THEN Returns([data |-> Bytes(resp.json), headers |-> resp.headers],
                 << >>, req)
    ELSE Exits(1, <<"Request failed\n\n", "Response:\n", resp.text>>, req)

\* REST._update(resource_type, resource_id, data)
REST_update(a, resource_type, resource_id, data, resp) ==
    json_loads(REST_put(a, Url(a.server \o <<"/", resource_type, "/">>
                                   \o DecimalText(resource_id) \o <<"/">>,
                               << >>),
                        data, resp))

\* REST.patch_set(patch_id, state, archived, commit_ref)
REST_patch_set(a, patch_id, state, archived, commit_ref, resp) ==
    LET p1 == IF state.t # "None"
              THEN With(<< >>, "state", PyStr(Slug(state.s))) ELSE << >>
        p2 == IF commit_ref.t # "None"
              THEN With(p1, "commit_ref", commit_ref) ELSE p1
        p3 == IF archived.t # "None" THEN With(p2, "archived", archived)
              ELSE p2
        patch == REST_update(a, "patches", patch_id, p3, resp)
    IN  IF patch.outcome # "return" THEN patch
        ELSE Then(patch, REST_patch_to_dict(patch.ret))

\* the inputs of an update
UpdateStates == {PyNone, PyStr(<< >>), PyStr(ACCEPTED)}
UpdateArchived == {PyNone, PyStr(YES)}
UpdateCommits == {PyNone, PyStr(<<"6", "9", "8">>)}
SetAnswers == {FaultAnswer, Answer(PyBool(TRUE)), Answer(PyBool(FALSE))}
GetAnswers ==
    {FaultAnswer, Answer(<< >>),
     Answer([id |-> PyInt(1), name |-> PyStr(<<"f", "i", "x">>)])}

XmlrpcPatchSet ==
    \E patch_id \in PatchIds, state \in UpdateStates,
       archived \in UpdateArchived, commit_ref \in UpdateCommits,
       states \in ListStateAnswers, set \in SetAnswers :
        LET r == XMLRPC_patch_set(patch_id, state, archived, commit_ref,
                                  states, set) IN
        /\ Ready("xmlrpc")
        /\ CallsOf("state_list", r.calls) = 0 => states = FaultAnswer
        /\ CallsOf("patch_set", r.calls) = 0 => set = FaultAnswer
        /\ Finish("XMLRPC.patch_set",
                  [patch_id |-> patch_id, state |-> state,
                   archived |-> archived, commit_ref |-> commit_ref,
                   states |-> states, set |-> set], r)
        /\ UNCHANGED <<api, created, inflight>>

ActionUpdate ==
    \E patch_id \in PatchIds, state \in UpdateStates,
       archived \in UpdateArchived, commit \in UpdateCommits,
       get \in GetAnswers, states \in ListStateAnswers, set \in SetAnswers :
        LET r == action_update(patch_id, state, archived, commit, get,
                               states, set) IN
        /\ Ready("xmlrpc")
        /\ CallsOf("state_list", r.calls) = 0 => states = FaultAnswer
        /\ CallsOf("patch_set", r.calls) = 0 => set = FaultAnswer
        /\ Finish("patches.action_update",
                  [patch_id |-> patch_id, state |-> state,
                   archived |-> archived, commit |-> commit, get |-> get,
                   states |-> states, set |-> set], r)
        /\ UNCHANGED <<api, created, inflight>>

RestPatchSet ==
    \E patch_id \in PatchIds, state \in RestListStates,
       archived \in UpdateArchived, commit_ref \in UpdateCommits,
       resp \in DetailAnswers :
        /\ Ready("rest")
        /\ Finish("REST.patch_set",
                  [patch_id |-> patch_id, state |-> state,
                   archived |-> archived, commit_ref |-> commit_ref,
                   resp |-> resp],
                  REST_patch_set(api, patch_id, state, archived, commit_ref,
                                 resp))
        /\ UNCHANGED <<api, created, inflight>>

----------------------------------------------------------------------------
(* The other operations of the legacy facade: one remote call each *)

\* self._client.<fn>(*args), the fault of the server proxy passed on
ClientCall(fn, args, answer) ==
    LET cs == <<Call(fn, args)>> IN
    IF answer.fault THEN Raises("Fault", FAULT_STRING, << >>, cs)
    ELSE Returns(answer.value, << >>, cs)

\* XMLRPC.project_get
XMLRPC_project_get(project_id, answer) ==
    ClientCall("project_get", <<PyInt(project_id)>>, answer)

\* XMLRPC.person_get
XMLRPC_person_get(person_id, answer) ==
    ClientCall("person_get", <<PyInt(person_id)>>, answer)

\* XMLRPC.state_get
XMLRPC_state_get(state_id, answer) ==
    ClientCall("state_get", <<PyInt(state_id)>>, answer)

\* XMLRPC.check_create: the one remote call inside try / except Fault
XMLRPC_check_create(patch_id, context, state, target_url, description, answer) ==
    LET cs == <<Call("check_create",
                     <<PyInt(patch_id), context, state, target_url,
                       description>>)>> IN
    IF answer.fault
    THEN Raises("APIError", ERROR_CREATING \o FAULT_STRING, << >>, cs)
    ELSE Returns(answer.value, << >>, cs)

\* the ids asked for
RecordIds == {1, 3}

XmlrpcProjectList ==
    \E search_str \in Linknames, answer \in ListProjectAnswers :
        /\ Ready("xmlrpc")
        /\ Finish("XMLRPC.project_list",
                  [search_str |-> search_str, answer |-> answer],
                  ListResult(XMLRPC_project_list(search_str, 0, answer)))
        /\ UNCHANGED <<api, created, inflight>>

XmlrpcProjectGet ==
    \E project_id \in RecordIds,
       answer \in {FaultAnswer} \cup {Answer(p) : p \in ProjectRecords} :
        /\ Ready("xmlrpc")
        /\ Finish("XMLRPC.project_get",
                  [project_id |-> project_id, answer |-> answer],
                  XMLRPC_project_get(project_id, answer))
        /\ UNCHANGED <<api, created, inflight>>

XmlrpcPersonList ==
    \E search_str \in {<< >>, <<"j", "k">>}, answer \in PeopleAnswers :
        /\ Ready("xmlrpc")
        /\ Finish("XMLRPC.person_list",
                  [search_str |-> search_str, answer |-> answer],
                  ListResult(XMLRPC_person_list(search_str, 0, answer)))
        /\ UNCHANGED <<api, created, inflight>>

XmlrpcPersonGet ==
    \E person_id \in RecordIds,
       answer \in {FaultAnswer} \cup {Answer(p) : p \in PersonRecords} :
        /\ Ready("xmlrpc")
        /\ Finish("XMLRPC.person_get",
                  [person_id |-> person_id, answer |-> answer],
                  XMLRPC_person_get(person_id, answer))
        /\ UNCHANGED <<api, created, inflight>>

XmlrpcStateList ==
    \E search_str \in StateNames, answer \in ListStateAnswers :
        /\ Ready("xmlrpc")
        /\ Finish("XMLRPC.state_list",
                  [search_str |-> search_str, answer |-> answer],
                  ListResult(XMLRPC_state_list(search_str, 0, answer)))
        /\ UNCHANGED <<api, created, inflight>>

XmlrpcStateGet ==
    \E state_id \in RecordIds,
       answer \in {FaultAnswer} \cup {Answer(s) : s \in StateRecords} :
        /\ Ready("xmlrpc")
        /\ Finish("XMLRPC.state_get",
                  [state_id |-> state_id, answer |-> answer],
                  XMLRPC_state_get(state_id, answer))
        /\ UNCHANGED <<api, created, inflight>>

XmlrpcCheckCreate ==
    \E patch_id \in PatchIds,
       state \in {PyStr(<<"success">>), PyStr(<<"fail">>)},
       target_url \in {PyStr(<< >>), PyStr(<<"https://ci/1">>)},
       answer \in {FaultAnswer, Answer(PyBool(TRUE))} :
        /\ Ready("xmlrpc")
        /\ Finish("XMLRPC.check_create",
                  [patch_id |-> patch_id, context |-> PyStr(<<"ci">>),
                   state |-> state, target_url |-> target_url,
                   description |-> PyStr(<< >>), answer |-> answer],
                  XMLRPC_check_create(patch_id, PyStr(<<"ci">>), state,
                                      target_url, PyStr(<< >>), answer))
        /\ UNCHANGED <<api, created, inflight>>

----------------------------------------------------------------------------
(* REST._post, REST._create, REST.check_create; REST people *)

\* the request REST._post builds
PostRequest(a, url, data) ==
    [method |-> "POST", url |-> url,
     headers |-> REST_generate_headers(
                     a, "Content-Type" :> <<"application/json">>),
     data |-> data]

\* REST._post with no branch for HTTP errors of its own: the 404 answered
\* as REST._get answers it
REST_post_lenient(a, url, data, resp) ==
    LET req == <<PostRequest(a, url, data)>> IN
    IF resp.status = HTTP_OK
    THEN Returns([data |-> Bytes(resp.json), headers |-> resp.headers],
                 << >>, req)
    ELSE IF resp.status = HTTP_NOT_FOUND
    THEN Returns([data |-> EmptyDict, headers |-> << >>], << >>, req)
    ELSE Exits(1, <<"Request failed\n\n", "Response:\n", resp.text>>, req)

\* REST._post: returns [data, headers]; every HTTP error ends the process
REST_post(a, url, data, resp) ==
    LET req == <<PostRequest(a, url, data)>> IN
    IF resp.status = HTTP_OK
    THEN Returns([data |-> Bytes(resp.json), headers |-> resp.headers],
                 << >>, req)
    ELSE Exits(1, <<"Request failed\n\n", "Response:\n", resp.text>>, req)

\* REST._create(resource_type, data, resource_id=, subresource_type=)
REST_create(a, resource_type, data, resource_id, subresource_type, resp) ==
    LET base == a.server \o <<"/", resource_type, "/">>
        path == IF resource_id # 0
                THEN base \o DecimalText(resource_id)
                          \o <<"/", subresource_type, "/">>
                ELSE base
    IN  json_loads(REST_post(a, Url(path, << >>), data, resp))

\* REST.check_create; first answers the POST, second the patch request
REST_check_create(a, patch_id, context, state, target_url, description, first, second) ==
    LET check == REST_create(a, "patches",
                             [context |-> context, state |-> state,
                              target_url |-> target_url,
                              description |-> description],
                             patch_id, "checks", first)
        patch == Then(check, REST_detail(a, "patches", patch_id, << >>, None,
                                         0, second))
    IN  IF check.outcome # "return" THEN check
        ELSE IF patch.outcome # "return" THEN patch
        ELSE Then(patch, REST_check_to_dict(check.ret, patch.ret))

\* REST._person_to_dict
REST_person_to_dict(obj) ==
    IF ~({"id", "email", "name", "username"} \subseteq DOMAIN obj)
    THEN Raises("KeyError", "missing key", << >>, << >>)
    ELSE IF PyTruthy(obj.username) /\ "user" \notin DOMAIN obj
    THEN Raises("KeyError", "missing key", << >>, << >>)
    ELSE IF PyTruthy(obj.username) /\ ~IsDict(obj.user)
    THEN Raises("TypeError", "not subscriptable", << >>, << >>)
    ELSE Returns(
        [id |-> obj.id,
         email |-> obj.email,
         name |-> IF PyTruthy(obj.name) THEN obj.name ELSE obj.email,
         user |-> IF PyTruthy(obj.username) THEN obj.user.username
                  ELSE PyStr(<< >>)], << >>, << >>)

SEARCH_STR_UNSUPPORTED == "The search_str parameter is not supported"

\* "[self._person_to_dict(person) for person in people]"
PeopleToDicts(got) ==
    IF got.outcome # "return" THEN got
    ELSE LET rs == [i \in 1..Len(got.ret) |-> REST_person_to_dict(got.ret[i])]
             bad == {i \in 1..Len(rs) : rs[i].outcome # "return"}
         IN  IF bad # {}
             THEN Then(got, rs[CHOOSE i \in bad : \A j \in bad : i <= j])
             ELSE Returns([i \in 1..Len(rs) |-> rs[i].ret], got.stderr,
                          got.calls)

\* REST.person_list(search_str, max_count)
REST_person_list(a, search_str, max_count, resp) ==
    IF PyTruthy(search_str)
    THEN Raises("NotImplementedError", SEARCH_STR_UNSUPPORTED, << >>, << >>)
    ELSE IF PyTruthy(max_count)
    THEN Raises("NotImplementedError", MAX_COUNT_UNSUPPORTED, << >>, << >>)
    ELSE PeopleToDicts(REST_list(a, "people", << >>, 0, None, resp))

\* REST.person_get(person_id)
REST_person_get(a, person_id, resp) ==
    LET person == REST_detail(a, "people", person_id, << >>, None, 0, resp)
    IN  IF person.outcome # "return" THEN person
        ELSE Then(person, REST_person_to_dict(person.ret))

\* people of the REST API: with an account, without one and without a
\* name, and one whose record also has a username of its own
RestPeople ==
    {[id |-> PyInt(1), email |-> PyStr(<<"j", "@", "k">>),
      name |-> PyStr(<<"j", "k">>),
      user |-> [id |-> PyInt(7), username |-> PyStr(<<"u">>)]],
     [id |-> PyInt(2), email |-> PyStr(<<"a", "@", "b">>),
      name |-> PyStr(<< >>), user |-> PyNone],
     [id |-> PyInt(3), email |-> PyStr(<<"c", "@", "d">>),
      name |-> PyStr(<<"c">>), username |-> PyStr(<<"c", "d">>),
      user |-> [id |-> PyInt(8), username |-> PyStr(<<"v">>)]]}

RestCheckCreate ==
    \E patch_id \in {1},
       state \in {PyStr(<<"success">>), PyStr(<<"fail">>)},
       first \in CheckDetailAnswers, second \in DetailAnswers :
        LET r == REST_check_create(api, patch_id, PyStr(<<"ci">>), state,
                                   PyStr(<< >>), PyStr(<< >>), first, second)
        IN  /\ Ready("rest")
            /\ Len(r.calls) < 2 => second = HttpError(HTTP_NOT_FOUND)
            /\ Finish("REST.check_create",
                      [patch_id |-> patch_id, context |-> PyStr(<<"ci">>),
                       state |-> state, target_url |-> PyStr(<< >>),
                       description |-> PyStr(<< >>), first |-> first,
                       second |-> second], r)
            /\ UNCHANGED <<api, created, inflight>>

RestPersonList ==
    \E search_str \in {PyNone, PyStr(<<"j", "k">>)},
       resp \in {HttpOk(l, << >>) : l \in SeqsUpTo(RestPeople, MaxItems)}
                \cup {HttpError(HTTP_NOT_FOUND),
                      HttpError(HTTP_SERVER_ERROR)} :
        LET r == REST_person_list(api, search_str, PyInt(0), resp) IN
        /\ Ready("rest")
        /\ Len(r.calls) < 1 => resp = HttpError(HTTP_NOT_FOUND)
        /\ Finish("REST.person_list",
                  [search_str |-> search_str, resp |-> resp], ListResult(r))
        /\ UNCHANGED <<api, created, inflight>>

RestPersonGet ==
    \E person_id \in {1, 2},
       resp \in {HttpOk(p, << >>) : p \in RestPeople}
                \cup {HttpError(HTTP_NOT_FOUND),
                      HttpError(HTTP_SERVER_ERROR)} :
        /\ Ready("rest")
        /\ Finish("REST.person_get",
                  [person_id |-> person_id, resp |-> resp],
                  REST_person_get(api, person_id, resp))
        /\ UNCHANGED <<api, created, inflight>>

----------------------------------------------------------------------------
(* XMLRPC.patch_get_by_hash and patch_get_by_project_hash, called for    *)
(* the record they return                                                *)

XmlrpcPatchGetByHash ==
    \E hash \in Hashes,
       answer \in {FaultAnswer} \cup {Answer(w) : w \in XmlrpcWirePatches} :
        /\ Ready("xmlrpc")
        /\ Finish("XMLRPC.patch_get_by_hash",
                  [hash |-> hash, answer |-> answer],
                  XMLRPC_patch_get_by_hash(hash, answer))
        /\ UNCHANGED <<api, created, inflight>>

XmlrpcPatchGetByProjectHash ==
    \E project \in Projects, hash \in Hashes,
       answer \in {FaultAnswer} \cup {Answer(w) : w \in XmlrpcWirePatches} :
        /\ Ready("xmlrpc")
        /\ Finish("XMLRPC.patch_get_by_project_hash",
                  [project |-> project, hash |-> hash, answer |-> answer],
                  XMLRPC_patch_get_by_project_hash(project, hash, answer))
        /\ UNCHANGED <<api, created, inflight>>

----------------------------------------------------------------------------

Init ==
    /\ api = NoApi
    /\ op = "none"
    /\ inp = << >>
    /\ outcome = "none"
    /\ exc = ""
    /\ msg = ""
    /\ status = 0
    /\ ret = PyNone
    /\ stderr = << >>
    /\ calls = << >>
    /\ created = {}
    /\ inflight = << >>

Next ==
    \/ NewXMLRPC
    \/ NewREST
    \/ StateIdByName
    \/ ProjectIdByName
    \/ ProjectsProjectIdByName
    \/ PatchIdFromHash
    \/ XmlrpcPatchIdFromHash
    \/ XmlrpcPatchGet
    \/ RestPatchGet
    \/ RestPatchGetByHash
    \/ RestPatchGetByProjectHash
    \/ RestPatchIdFromHash
    \/ XmlrpcPatchList
    \/ RestPatchList
    \/ RestStateList
    \/ RestStateGet
    \/ RestCheckList
    \/ RestCheckGet
    \/ XmlrpcCheckList
    \/ XmlrpcCheckGet
    \/ XmlrpcPatchSet
    \/ ActionUpdate
    \/ RestPatchSet
    \/ XmlrpcProjectList
    \/ XmlrpcProjectGet
    \/ XmlrpcPersonList
    \/ XmlrpcPersonGet
    \/ XmlrpcStateList
    \/ XmlrpcStateGet
    \/ XmlrpcCheckCreate
    \/ RestCheckCreate
    \/ RestPersonList
    \/ RestPersonGet
    \/ XmlrpcPatchGetByHash
    \/ XmlrpcPatchGetByProjectHash
    \/ RestListSend
    \/ RestListReceive

Spec == Init /\ [][Next]_vars

----------------------------------------------------------------------------
(* Properties *)

Constructors == {"XMLRPC.__init__", "REST.__init__"}

\* C1: either backend built with a username and no password, a password
\* and no username, or username, password and token together raises
\* ConfigError; username and password alone (either backend, on a server
\* the backend can talk to) or a token alone (REST) succeeds.
C1_CredentialValidation ==
    op \in Constructors =>
        /\ ( \/ Truthy(inp.username) /\ ~Truthy(inp.password)
             \/ Truthy(inp.password) /\ ~Truthy(inp.username)
             \/ Truthy(inp.username) /\ Truthy(inp.password)
                    /\ Truthy(inp.token) )
           => (outcome = "raise" /\ exc = "ConfigError")
        /\ ( /\ Truthy(inp.username) /\ Truthy(inp.password)
             /\ ~Truthy(inp.token)
             /\ (op = "XMLRPC.__init__" => inp.server.scheme = "https") )
           => outcome = "return"
        /\ ( /\ op = "REST.__init__"
             /\ Truthy(inp.token)
             /\ ~Truthy(inp.username) /\ ~Truthy(inp.password) )
           => outcome = "return"

\* C2 as stated: the XML-RPC backend built with a token always raises
\* ConfigError with the message 'The XML-RPC API does not support API
\* tokens', before any transport or server proxy is created.
C2_TokenAlwaysTokenMessage ==
    (op = "XMLRPC.__init__" /\ Truthy(inp.token)) =>
        /\ outcome = "raise" /\ exc = "ConfigError"
        /\ msg = MSG_NO_TOKENS
        /\ created = {} /\ calls = << >>

\* C2 as amended: the XML-RPC backend built with a token always raises
\* ConfigError before any transport or server proxy is created; the message
\* is 'The XML-RPC API does not support API tokens' exactly when neither a
\* username nor a password comes with the token, and the message of the
\* credential check of the base class otherwise.
C2_TokenRejectedBeforeTransport ==
    (op = "XMLRPC.__init__" /\ Truthy(inp.token)) =>
        /\ outcome = "raise" /\ exc = "ConfigError"
        /\ created = {} /\ calls = << >>
        /\ api.backend = "none"
        /\ msg = MSG_NO_TOKENS
              <=> (~Truthy(inp.username) /\ ~Truthy(inp.password))
        /\ msg \in {MSG_NO_TOKENS, MSG_BOTH_NEEDED, MSG_NOT_BOTH}

C2_Witness ==
    /\ op = "XMLRPC.__init__"
    /\ inp.token = "foo" /\ inp.username = None /\ inp.password = None
    /\ exc = "ConfigError" /\ msg = MSG_NO_TOKENS /\ created = {}

\* C3: REST._list on a collection whose pages are chained by rel="next"
\* Link headers returns the items of all pages, in page order, up to the
\* first page without a next link; pages [{id:1}] -> [{id:2}] give
\* [{id:1},{id:2}].
C3_ListFollowsNextLinks ==
    (op = "REST._list" /\ outcome = "return")
        => ret = PyList(Flatten(inp.chain))

C5_MissingPatchIsEmptyRecord ==
    /\ (op = "REST.patch_get" /\ inp.resp.status = HTTP_NOT_FOUND)
       => (outcome = "return" /\ ret = << >>)
    /\ (op = "XMLRPC.patch_get" /\ ~inp.answer.fault
            /\ inp.answer.value = << >>)
       => (outcome = "return" /\ ret = << >>)

CanonicalPatchFields ==
    {"id", "date", "filename", "msgid", "name", "project", "project_id",
     "state", "state_id", "archived", "submitter", "submitter_id",
     "delegate", "delegate_id", "commit_ref", "hash"}

\* the record a legacy hash-to-id lookup works on: [found, value]
LegacyLookup ==
    LET a == IF op = "patches.patch_id_from_hash" /\ inp.first.fault
             THEN inp.second ELSE inp.first
    IN  [found |-> ~a.fault, value |-> a.value]

HashToIdOps == {"patches.patch_id_from_hash", "XMLRPC._patch_id_from_hash"}

\* C6: on the REST backend patch_get_by_hash and patch_get_by_project_hash
\* return the empty record when the server returns 0 or at least 2 patches
\* and the normalized patch when it returns exactly 1; a hash-to-id lookup
\* on 0 or at least 2 matches ends like the legacy one on an empty record:
\* 'No patch has the hash provided' on standard error and exit status 1.
C6_RestHashLookupNeedsOneMatch ==
    /\ ( /\ op \in {"REST.patch_get_by_hash", "REST.patch_get_by_project_hash"}
         /\ inp.resp.status = HTTP_OK )
       => LET found == inp.resp.json IN
          IF Len(found) # 1 THEN outcome = "return" /\ ret = << >>
          ELSE /\ outcome = "return"
               /\ DOMAIN ret = CanonicalPatchFields
               /\ ret.id = found[1].id
               /\ ret.name = found[1].name
               /\ ret.project = found[1].project.name
               /\ ret.project_id = found[1].project.id
               /\ ret.submitter_id = found[1].submitter.id
    /\ ( /\ op \in HashToIdOps
         /\ \/ /\ api.backend = "rest"
               /\ inp.resp.status = HTTP_OK
               /\ Len(inp.resp.json) # 1
            \/ /\ api.backend = "xmlrpc"
               /\ LegacyLookup.found
               /\ LegacyLookup.value = << >> )
       => /\ outcome = "exit" /\ status = 1
          /\ stderr = <<NO_PATCH_WITH_HASH>>

C6_Witness ==
    /\ op = "patches.patch_id_from_hash"
    /\ api.backend = "rest"
    /\ inp.resp.status = HTTP_OK
    /\ Len(inp.resp.json) = 2
    /\ outcome = "exit"
    /\ stderr = <<NO_PATCH_WITH_HASH>>

\* a numeric id: an integer, or text of an optional sign and digits
Numeric(id) ==
    \/ id.t = "int"
    \/ /\ id.t = "str"
       /\ \E k \in 0..1 :
              /\ Len(id.s) > k
              /\ k = 1 => id.s[1] \in {"-", "+"}
              /\ \A i \in (k + 1)..Len(id.s) : id.s[i] \in Digits

\* the record a hash-to-id lookup of either backend works on
Lookup ==
    IF api.backend = "xmlrpc" THEN LegacyLookup
    ELSE [found |-> inp.resp.status = HTTP_OK,
          value |-> IF inp.resp.status = HTTP_OK /\ Len(inp.resp.json) = 1
                    THEN inp.resp.json[1] ELSE << >>]

\* C7: resolving a patch id from (project, hash): on an empty record, or a
\* record whose id is not numeric, a diagnostic goes to standard error and
\* the process exits with non-zero status; otherwise the id is returned as
\* an integer.  No non-integer id is returned, and no lookup returns
\* normally after an empty record.
C7_PatchIdFromHash ==
    op \in HashToIdOps =>
        /\ Lookup.found =>
              IF Lookup.value = << >>
              THEN outcome = "exit" /\ status # 0
                       /\ stderr = <<NO_PATCH_WITH_HASH>>
              ELSE IF ~Numeric(Lookup.value.id)
              THEN outcome = "exit" /\ status # 0
                       /\ stderr = <<INVALID_PATCH_ID>>
              ELSE outcome = "return"
                       /\ ret = PyInt(int(Lookup.value.id).v)
        /\ outcome = "return" =>
              /\ ret.t = "int" /\ ret.n \in Int
              /\ Lookup.found /\ Lookup.value # << >>
              /\ Lookup.value.id = PyStr(<<"1", "2">>) => ret.n = 12
              /\ Lookup.value.id = PyStr(<<"-", "1">>) => ret.n = 0 - 1

C7_Witness ==
    /\ op = "patches.patch_id_from_hash"
    /\ api.backend = "xmlrpc"
    /\ ~inp.first.fault
    /\ inp.first.value # << >>
    /\ inp.first.value.id = PyStr(<<"x">>)
    /\ outcome = "exit"
    /\ stderr = <<INVALID_PATCH_ID>>

\* C8: a legacy hash-to-id lookup first calls
\* patch_get_by_project_hash(project, hash); patch_get_by_hash(hash) is
\* called exactly once if and only if that first call is rejected with a
\* fault, and never when the first call returns.
C8_HashOnlyFallbackIffFault ==
    (op \in HashToIdOps /\ api.backend = "xmlrpc") =>
        /\ calls # << >>
        /\ calls[1] = Call("patch_get_by_project_hash",
                           <<PyStr(inp.project), PyStr(inp.hash)>>)
        /\ CallsOf("patch_get_by_project_hash", calls) = 1
        /\ CallsOf("patch_get_by_hash", calls)
               = IF inp.first.fault THEN 1 ELSE 0

\* name is a prefix of s, letter case put aside
PrefixIgnoringCase(name, s) ==
    /\ Len(name) <= Len(s)
    /\ \A i \in 1..Len(name) : LowerChar(name[i]) = LowerChar(s[i])

\* C9: legacy state resolution returns the id of the first state, in the
\* order of the fetched list, whose name starts with the given string,
\* letter case put aside; 0 when no state matches; and 0 without any
\* remote call when the string is empty.  For [New, Newer] and 'New' the
\* result is the id of New.
C9_StateIdByName ==
    op = "XMLRPC._state_id_by_name" =>
        /\ inp.name = << >> =>
              outcome = "return" /\ ret = PyInt(0) /\ calls = << >>
        /\ (inp.name # << >> /\ ~inp.answer.fault) =>
              LET states == inp.answer.value
                  hits == {i \in 1..Len(states) :
                              PrefixIgnoringCase(inp.name, states[i].name)}
              IN  /\ outcome = "return"
                  /\ calls = <<Call("state_list",
                                     <<PyStr(inp.name), PyInt(0)>>)>>
                  /\ hits = {} => ret = PyInt(0)
                  /\ hits # {} =>
                        \E i \in hits :
                            /\ \A j \in hits : i <= j
                            /\ ret = PyInt(states[i].id)

C9_Witness ==
    /\ op = "XMLRPC._state_id_by_name"
    /\ inp.name = <<"N", "e", "w">>
    /\ ~inp.answer.fault
    /\ inp.answer.value = <<[id |-> 1, name |-> <<"N", "e", "w">>],
                            [id |-> 2, name |-> <<"N", "e", "w", "e", "r">>]>>
    /\ outcome = "return"
    /\ ret = PyInt(1)

ProjectIdOps == {"XMLRPC._project_id_by_name", "projects.project_id_by_name"}

\* C10: legacy project resolution returns the id of the first project
\* whose linkname equals the given string (same case, no prefix or
\* substring match); 0 when none does; and 0 without any remote call when
\* the string is empty.
C10_ProjectIdByName ==
    op \in ProjectIdOps =>
        /\ inp.linkname = << >> =>
              outcome = "return" /\ ret = PyInt(0) /\ calls = << >>
        /\ (inp.linkname # << >> /\ ~inp.answer.fault) =>
              LET projects == inp.answer.value
                  hits == {i \in 1..Len(projects) :
                              projects[i].linkname = inp.linkname}
              IN  /\ outcome = "return"
                  /\ calls = <<Call("project_list",
                                     <<PyStr(inp.linkname), PyInt(0)>>)>>
                  /\ hits = {} => ret = PyInt(0)
                  /\ hits # {} =>
                        \E i \in hits :
                            /\ \A j \in hits : i <= j
                            /\ ret = PyInt(projects[i].id)

C10_Witness ==
    /\ op = "projects.project_id_by_name"
    /\ inp.linkname = <<"p", "w">>
    /\ ~inp.answer.fault
    /\ inp.answer.value = <<[id |-> 2, linkname |-> <<"p", "w", "c">>],
                            [id |-> 1, linkname |-> <<"p", "w">>]>>
    /\ outcome = "return"
    /\ ret = PyInt(1)

----------------------------------------------------------------------------
(* Legacy patch_list: C11 - C14 *)

\* the filters of the successive remote patch_list calls
ListFilters ==
    LET cs == SelectSeq(calls, LAMBDA c : c.fn = "patch_list")
    IN  [i \in 1..Len(cs) |-> cs[i].args[1]]

\* note is written to standard error
Written(note) ==
    \E i \in 0..(Len(stderr) - Len(note)) :
        SubSeq(stderr, i + 1, i + Len(note)) = note

Least(S) == CHOOSE x \in S : \A y \in S : x <= y

\* the state and project lookups of a patch_list are answered, not faulted
LookupsAnswered ==
    /\ inp.state.t = "str" => ~inp.answers.states.fault
    /\ inp.project.t = "str" => ~inp.answers.projects.fault

\* the id the state filter resolves to, 0 when it resolves to none
ListStateId ==
    LET v == inp.answers.states.value
        hits == {i \in 1..Len(v) : PrefixIgnoringCase(inp.state.s, v[i].name)}
    IN  IF inp.state.s = << >> \/ hits = {} THEN 0 ELSE v[Least(hits)].id

\* the id the project filter resolves to, 0 when it resolves to none
ListProjectId ==
    LET v == inp.answers.projects.value
        hits == {i \in 1..Len(v) : v[i].linkname = inp.project.s}
    IN  IF inp.project.s = << >> \/ hits = {} THEN 0 ELSE v[Least(hits)].id

\* the filters every list call carries besides a person's id
CommonFilters ==
    LET o == inp.other
        b == BaseFilters(o.archived, o.msgid, o.name, o.hash, o.max_count)
        s == IF inp.state.t = "str" /\ ListStateId # 0
             THEN With(b, "state_id", PyInt(ListStateId)) ELSE b
    IN  IF inp.project.t = "str" /\ ListProjectId # 0
        THEN With(s, "project_id", PyInt(ListProjectId)) ELSE s

NoPersonFilter == inp.submitter.t = "None" /\ inp.delegate.t = "None"

\* C11: in legacy patch_list, a state or project filter that resolves to a
\* non-zero id puts state_id / project_id equal to that id in the list call
\* ('Accepted' with remote state {id:3, name:'Accepted'} gives state_id =
\* 3); one that does not resolve writes a diagnostic to standard error,
\* leaves the key out, and the list call is still issued with the
\* remaining filters.
C11_StateProjectFilters ==
    (op = "XMLRPC.patch_list" /\ LookupsAnswered) =>
        /\ inp.state.t = "str" =>
              IF ListStateId # 0
              THEN /\ \A i \in DOMAIN ListFilters :
                         /\ "state_id" \in DOMAIN ListFilters[i]
                         /\ ListFilters[i].state_id = PyInt(ListStateId)
                   /\ ~Written(NoStateNote(inp.state.s))
              ELSE /\ Written(NoStateNote(inp.state.s))
                   /\ \A i \in DOMAIN ListFilters :
                         "state_id" \notin DOMAIN ListFilters[i]
        /\ inp.project.t = "str" =>
              IF ListProjectId # 0
              THEN /\ \A i \in DOMAIN ListFilters :
                         /\ "project_id" \in DOMAIN ListFilters[i]
                         /\ ListFilters[i].project_id = PyInt(ListProjectId)
                   /\ ~Written(NoProjectNote(inp.project.s))
              ELSE /\ Written(NoProjectNote(inp.project.s))
                   /\ \A i \in DOMAIN ListFilters :
                         "project_id" \notin DOMAIN ListFilters[i]
        /\ NoPersonFilter =>
              /\ ListFilters = <<CommonFilters>>
              /\ calls[Len(calls)].fn = "patch_list"
              /\ ~inp.answers.patches[1].fault => outcome = "return"

C11_Witness ==
    /\ op = "XMLRPC.patch_list"
    /\ NoPersonFilter
    /\ inp.state = PyStr(ACCEPTED)
    /\ inp.answers.states = Answer(<<[id |-> 3, name |-> ACCEPTED]>>)
    /\ inp.project = PyStr(<<"p", "w">>)
    /\ inp.answers.projects = Answer(<< >>)
    /\ inp.other.hash = PyStr(<<"6", "9", "8">>)
    /\ outcome = "return"
    /\ stderr = NoProjectNote(<<"p", "w">>)
    /\ Len(ListFilters) = 1
    /\ ListFilters[1].state_id = PyInt(3)
    /\ DOMAIN ListFilters[1] = {"archived", "name__icontains", "hash",
                                "state_id"}

\* the ids the person lookup of a patch_list resolved, in its order
PersonIds ==
    LET v == inp.answers.people.value IN [i \in 1..Len(v) |-> v[i].id]

RECURSIVE ConcatUpTo(_, _)
\* the results of the first n list calls, one after the other
ConcatUpTo(answers, n) ==
    IF n = 0 THEN << >>
    ELSE ConcatUpTo(answers, n - 1) \o answers[n].value

\* the list calls of a patch_list by person: one per id, in order, the
\* last calls made, after the person lookup
OneCallPerPerson(key) ==
    LET n == Len(PersonIds) IN
    /\ Len(ListFilters) = n
    /\ \A i \in 1..n :
          /\ ListFilters[i] = With(CommonFilters, key, PyInt(PersonIds[i]))
          /\ calls[Len(calls) - n + i].fn = "patch_list"
    /\ Len(calls) > n
    /\ calls[Len(calls) - n].fn = "person_list"

\* the result of a patch_list by person: the results of the calls, one
\* after the other, duplicates kept
ResultsConcatenated ==
    LET all == ConcatUpTo(inp.answers.patches, Len(PersonIds)) IN
    /\ outcome = "return"
    /\ Len(ret.items) = Len(all)
    /\ \A i \in 1..Len(all) : ret.items[i].id = all[i].id

\* the person lookup of a patch_list found somebody and every list call
\* it leads to is answered
PeopleFound ==
    /\ LookupsAnswered
    /\ ~inp.answers.people.fault
    /\ Len(PersonIds) >= 1
    /\ \A i \in 1..Len(PersonIds) : ~inp.answers.patches[i].fault

\* C12: legacy patch_list with a submitter resolving to p1..pn (n >= 1)
\* issues exactly n list calls, one after the other in that order, the
\* i-th carrying submitter_id = pi and the same other filters as every
\* other call, and returns the n results one after the other, duplicates
\* kept.
C12_OneCallPerSubmitter ==
    (op = "XMLRPC.patch_list" /\ inp.submitter.t = "str" /\ PeopleFound) =>
        /\ OneCallPerPerson("submitter_id")
        /\ ResultsConcatenated

C12_Witness ==
    /\ op = "XMLRPC.patch_list"
    /\ inp.submitter.t = "str"
    /\ PeopleFound
    /\ PersonIds = <<4, 1>>
    /\ inp.other.hash = PyStr(<<"6", "9", "8">>)
    /\ inp.answers.patches[1] = inp.answers.patches[2]
    /\ outcome = "return"
    /\ Len(ret.items) = 2
    /\ ret.items[1] = ret.items[2]
    /\ ListFilters[1].submitter_id = PyInt(4)
    /\ ListFilters[2].submitter_id = PyInt(1)

\* C13: legacy patch_list with no submitter and a delegate resolving to
\* d1..dn (n >= 1) issues exactly n list calls in that order, the i-th
\* carrying delegate_id = di, returns their results one after the other,
\* and does not raise.
C13_OneCallPerDelegate ==
    ( /\ op = "XMLRPC.patch_list"
      /\ inp.submitter.t = "None" /\ inp.delegate.t = "str"
      /\ PeopleFound )
    => /\ outcome # "raise"
       /\ OneCallPerPerson("delegate_id")
       /\ ResultsConcatenated

\* C14: legacy patch_list with a submitter or delegate whose lookup matches
\* nobody writes 'Nobody found matching' to standard error, issues no list
\* call, and returns the empty list.
C14_NobodyFound ==
    (op = "XMLRPC.patch_list" /\ LookupsAnswered) =>
        /\ ( /\ inp.submitter.t = "str"
             /\ inp.answers.people = Answer(<< >>) )
           => /\ Written(NobodyNote(inp.submitter.s))
              /\ ListFilters = << >>
              /\ outcome = "return" /\ ret = PyList(<< >>)
        /\ ( /\ inp.submitter.t = "None" /\ inp.delegate.t = "str"
             /\ inp.answers.people = Answer(<< >>) )
           => /\ Written(NobodyNote(inp.delegate.s))
              /\ ListFilters = << >>
              /\ outcome = "return" /\ ret = PyList(<< >>)

----------------------------------------------------------------------------
(* REST.patch_list: C15 *)

UpperCase == {"A", "C", "E", "F", "N", "P", "R", "U", "W"}

\* C15: REST patch_list with a state s sends the filter state = s in lower
\* case with every space replaced by a hyphen ('Accepted' -> 'accepted'),
\* sends a project unchanged, and makes no request before the patch list
\* request.
C15_RestListFilters ==
    (op = "REST.patch_list" /\ ~PyTruthy(inp.max_count)) =>
        /\ Len(calls) = 1
        /\ calls[1].method = "GET"
        /\ calls[1].url.path = api.server \o <<"/", "patches", "/">>
        /\ LET query == calls[1].url.query IN
           /\ DOMAIN query
                 = {k \in {"state"} : inp.state.t = "str"}
                   \cup {k \in {"project"} : inp.project.t = "str"}
           /\ inp.state.t = "str" =>
                 /\ Len(query.state) = Len(inp.state.s)
                 /\ \A i \in 1..Len(query.state) :
                       /\ query.state[i] \notin UpperCase \cup {" "}
                       /\ inp.state.s[i] = " " => query.state[i] = "-"
                       /\ inp.state.s[i] \notin UpperCase \cup {" "}
                              => query.state[i] = inp.state.s[i]
                 /\ inp.state.s = ACCEPTED
                       => query.state
                              = <<"a", "c", "c", "e", "p", "t", "e", "d">>
           /\ inp.project.t = "str" => query.project = inp.project.s

C15_Witness ==
    /\ op = "REST.patch_list"
    /\ inp.state = PyStr(UNDER_REVIEW)
    /\ inp.project = PyStr(<<"p", "w">>)
    /\ outcome = "return"
    /\ Len(calls) = 1
    /\ calls[1].url.query
          = [state |-> <<"u", "n", "d", "e", "r", "-", "r", "e", "v", "i",
                         "e", "w">>,
             project |-> <<"p", "w">>]

----------------------------------------------------------------------------
(* States and checks of the REST backend: C16, C17 *)

\* C16: REST state_list and state_get signal a not-supported error for
\* every argument, without any request; they never return an empty list or
\* record.
C16_RestStatesNotSupported ==
    op \in {"REST.state_list", "REST.state_get"} =>
        /\ outcome = "raise"
        /\ exc = "NotImplementedError"
        /\ msg = STATES_NOT_EXPOSED
        /\ calls = << >> /\ inflight = << >>

C16_Witness ==
    /\ op = "REST.state_list"
    /\ inp.search_str = PyStr(<<"N", "e", "w">>)
    /\ outcome = "raise"
    /\ exc = "NotImplementedError"
    /\ calls = << >>

\* C17: REST check_list and check_get without a patch identifier signal a
\* not-supported error before any request; the legacy check_list and
\* check_get go on without one.
C17_ChecksNeedPatchOnRest ==
    /\ ( /\ op \in {"REST.check_list", "REST.check_get"}
         /\ inp.patch_id = PyNone )
       => /\ outcome = "raise"
          /\ exc = "NotImplementedError"
          /\ msg = CHECKS_NEED_PATCH
          /\ calls = << >> /\ inflight = << >>
    /\ ( /\ op \in {"XMLRPC.check_list", "XMLRPC.check_get"}
         /\ inp.patch_id = PyNone )
       => /\ Len(calls) = 1
          /\ op = "XMLRPC.check_list" =>
                /\ calls[1].fn = "check_list"
                /\ "patch_id" \notin DOMAIN calls[1].args[1]
                /\ ~inp.answer.fault =>
                      outcome = "return" /\ ret = PyList(inp.answer.value)
          /\ op = "XMLRPC.check_get" =>
                /\ calls[1] = Call("check_get", <<PyInt(inp.check_id)>>)
                /\ ~inp.answer.fault =>
                      outcome = "return" /\ ret = inp.answer.value

C17_Witness ==
    /\ op = "REST.check_list"
    /\ inp.patch_id = PyNone
    /\ inp.user = PyStr(<<"u">>)
    /\ outcome = "raise"
    /\ exc = "NotImplementedError"
    /\ calls = << >>

----------------------------------------------------------------------------
(* C18: an update resolves its state name before the set call *)

UpdateOps == {"XMLRPC.patch_set", "patches.action_update"}

\* the positions of the calls of fn among the remote calls made
Positions(fn) == {i \in 1..Len(calls) : calls[i].fn = fn}

\* the id the state name of an update resolves to, 0 when to none
UpdateStateId ==
    LET v == inp.states.value
        hits == {i \in 1..Len(v) : PrefixIgnoringCase(inp.state.s, v[i].name)}
    IN  IF hits = {} THEN 0 ELSE v[Least(hits)].id

\* the update got as far as its state name: on the command path the patch
\* was fetched and is not empty
StateNameReached ==
    /\ op \in UpdateOps
    /\ inp.state.t = "str"
    /\ inp.state.s # << >>
    /\ op = "patches.action_update" =>
          ~inp.get.fault /\ inp.get.value # << >>

\* C18: on the legacy backend an update with a non-empty state name asks
\* for the states before any set call; when no state matches, the update
\* fails (APIError from the facade, exit status 1 and a diagnostic from the
\* command) and no set call is made; when one matches, the one set call
\* made carries state equal to the resolved id.
C18_StateResolvedBeforeSet ==
    StateNameReached =>
        /\ Positions("state_list") # {}
        /\ \A s \in Positions("patch_set") :
              \E l \in Positions("state_list") : l < s
        /\ (~inp.states.fault /\ UpdateStateId = 0) =>
              /\ Positions("patch_set") = {}
              /\ op = "XMLRPC.patch_set" =>
                    outcome = "raise" /\ exc = "APIError"
              /\ op = "patches.action_update" =>
                    /\ outcome = "exit" /\ status = 1
                    /\ Written(NoStateError(inp.state.s))
        /\ (~inp.states.fault /\ UpdateStateId # 0) =>
              \E s \in 1..Len(calls) :
                  /\ Positions("patch_set") = {s}
                  /\ calls[s].args[2].state = PyInt(UpdateStateId)

C18_Witness ==
    /\ StateNameReached
    /\ op = "XMLRPC.patch_set"
    /\ ~inp.states.fault
    /\ UpdateStateId # 0
    /\ Positions("patch_set") # {}
    /\ outcome = "return"

----------------------------------------------------------------------------
(* C19: faults of the server proxy at the facade boundary *)

\* the operations of the legacy facade that make one remote call
OneCallOps ==
    {"XMLRPC.project_list", "XMLRPC.project_get", "XMLRPC.person_list",
     "XMLRPC.person_get", "XMLRPC.patch_get", "XMLRPC.state_list",
     "XMLRPC.state_get", "XMLRPC.check_list", "XMLRPC.check_get",
     "XMLRPC.check_create"}

FacadeOps == OneCallOps \cup {"XMLRPC.patch_list", "XMLRPC.patch_set"}

\* the last remote call the operation made was answered with a fault
RemoteFaulted ==
    \/ op \in OneCallOps /\ inp.answer.fault
    \/ /\ op = "XMLRPC.patch_set"
       /\ calls # << >>
       /\ calls[Len(calls)].fn = "state_list" => inp.states.fault
       /\ calls[Len(calls)].fn = "patch_set" => inp.set.fault
    \/ /\ op = "XMLRPC.patch_list"
       /\ outcome = "raise"
       /\ exc \in {"Fault", "APIError"}

\* the message is the fault's own, bare or behind a prefix of the facade
CarriesFault(m) ==
    m \in {FAULT_STRING, ERROR_UPDATING \o FAULT_STRING,
           ERROR_CREATING \o FAULT_STRING}

\* C19: on the legacy backend a fault answering the remote call of any
\* facade operation (list and get of projects, people, patches, states and
\* checks, patch set, check create) leaves the facade as an APIError that
\* carries the fault's message; no operation of the facade ends with the
\* protocol's own Fault.
C19_FaultsBecomeApiErrors ==
    op \in FacadeOps =>
        /\ ~(outcome = "raise" /\ exc = "Fault")
        /\ RemoteFaulted =>
              outcome = "raise" /\ exc = "APIError" /\ CarriesFault(msg)

----------------------------------------------------------------------------
(* C20: an update fetches the patch before it changes it *)

\* the fetch of the update was answered with an empty record
FetchedNothing ==
    op = "patches.action_update" /\ ~inp.get.fault /\ inp.get.value = << >>

----------------------------------------------------------------------------
(* C21: HTTP errors on the REST backend *)

RestOps ==
    {"REST._list", "REST.patch_get", "REST.patch_get_by_hash",
     "REST.patch_get_by_project_hash", "REST.patch_list", "REST.patch_set",
     "REST.check_list", "REST.check_get", "REST.check_create",
     "REST.person_list", "REST.person_get"}

\* the answers the requests of the operation got, in the order of calls
RestAnswers ==
    IF op = "REST._list" THEN inp.answers
    ELSE IF "resp" \in DOMAIN inp THEN <<inp.resp>>
    ELSE IF "first" \in DOMAIN inp THEN <<inp.first, inp.second>>
    ELSE << >>

\* the requests that were answered
Answered ==
    {k \in 1..Len(calls) : k <= Len(RestAnswers)}

\* request k got an HTTP error that is not a 404 to a GET
FatalAnswer(k) ==
    /\ RestAnswers[k].status # HTTP_OK
    /\ ~(calls[k].method = "GET" /\ RestAnswers[k].status = HTTP_NOT_FOUND)

\* C21: on the REST backend an HTTP error answer other than a 404 to a
\* GET (every HTTP error answer to a POST or PATCH, 404 included) is fatal:
\* the response body is written to standard error, the process exits with
\* a non-zero status, and the failed request is sent once and is the last
\* request sent.
C21_HttpErrorsAreFatal ==
    (op \in RestOps /\ outcome # "pending") =>
        \A k \in Answered :
            FatalAnswer(k) =>
                /\ outcome = "exit"
                /\ status # 0
                /\ Written(<<RestAnswers[k].text>>)
                /\ k = Len(calls)
                /\ \A j \in 1..Len(calls) : calls[j] = calls[k] => j = k

C21_Witness ==
    /\ op = "REST.check_create"
    /\ Answered = {1}
    /\ calls[1].method = "POST"
    /\ RestAnswers[1].status = HTTP_NOT_FOUND
    /\ outcome = "exit"
    /\ status = 1

----------------------------------------------------------------------------
(* C22, C23: the base URL the REST constructor stores *)

CONVERTED_NOTE == "Automatically converted XML-RPC URL to REST API URL."

\* the scheme and host part of the URL stored for the configured endpoint
StoredOrigin ==
    <<IF inp.server.scheme # "" THEN inp.server.scheme ELSE "http", "://",
      inp.server.netloc>>

LegacyEndpoint ==
    inp.server.path \in {<<"/", "xmlrpc">>, <<"/", "xmlrpc", "/">>}

\* C22: constructing the REST backend with an endpoint whose path is
\* '/xmlrpc' or '/xmlrpc/' stores the base URL with the path '/api' and
\* writes 'Automatically converted XML-RPC URL to REST API URL.' to
\* standard error; an endpoint with any other path is stored with its path
\* as given and nothing is written.
C22_LegacyEndpointConverted ==
    op = "REST.__init__" =>
        /\ LegacyEndpoint =>
              /\ api.server = StoredOrigin \o <<"/", "api">>
              /\ Written(<<CONVERTED_NOTE>>)
        /\ ~LegacyEndpoint =>
              /\ api.server = StoredOrigin \o inp.server.path
              /\ stderr = << >>


\* two slashes in a row somewhere in the path of a URL
DoubleSlash(path) ==
    \E i \in 1..(Len(path) - 1) : path[i] = "/" /\ path[i + 1] = "/"

\* C23: the base URL the REST constructor stores never ends with '/' (a
\* trailing slash of the configured endpoint is stripped), so every request
\* URL built from it has exactly one slash between the base and the
\* resource type.
C23_NoTrailingSlash ==
    api.backend = "rest" =>
        /\ api.server[Len(api.server)] # "/"
        /\ \A k \in 1..Len(calls) : ~DoubleSlash(calls[k].url.path)

----------------------------------------------------------------------------
(* C24: the headers of every REST request *)

\* C24: every request of the REST backend (GET, POST, PATCH) carries
\* 'User-Agent: pwclient (<version>)'; with a username and password
\* configured it carries 'Authorization: Basic base64(username:password)',
\* with a token configured in their place an Authorization header made
\* from the token, and with no credentials configured no Authorization
\* header.
C24_RequestHeaders ==
    api.backend = "rest" =>
        \A k \in 1..Len(calls) :
            LET h == calls[k].headers IN
            /\ calls[k].method \in {"GET", "POST", "PATCH"}
            /\ "User-Agent" \in DOMAIN h
            /\ h["User-Agent"] = <<"pwclient (", VERSION, ")">>
            /\ (Truthy(api.username) /\ Truthy(api.password)
                    /\ ~Truthy(api.token)) =>
                  /\ "Authorization" \in DOMAIN h
                  /\ h["Authorization"] =
                         <<"Basic ", "b64(", api.username, ":",
                           api.password, ")">>
            /\ (Truthy(api.token) /\ ~Truthy(api.username)
                    /\ ~Truthy(api.password)) =>
                  /\ "Authorization" \in DOMAIN h
                  /\ \E i \in 1..Len(h["Authorization"]) :
                         h["Authorization"][i] = api.token
            /\ (~Truthy(api.token) /\ ~Truthy(api.username)
                    /\ ~Truthy(api.password)) =>
                  "Authorization" \notin DOMAIN h

----------------------------------------------------------------------------
(* C25: the shape of the patch records the backends return *)

\* the patch records the operation returned
PatchesReturned ==
    IF outcome # "return" THEN {}
    ELSE IF op \in {"REST.patch_list", "XMLRPC.patch_list"}
    THEN {ret.items[i] : i \in 1..Len(ret.items)}
    ELSE IF op \in {"REST.patch_get", "REST.patch_set", "XMLRPC.patch_get"}
    THEN {ret}
    ELSE {}

\* the fields the wire may leave out or send as null
DefaultedFields == {"filename", "delegate", "commit_ref", "hash"}

\* C25: every patch record returned by patch_list, patch_get or the
\* normalised patch_set response of either backend has exactly the
\* canonical patch fields; a field absent or null on the wire (filename,
\* delegate, commit_ref, hash) is present with a default, never omitted
\* and never null.
C25_CanonicalPatchShape ==
    \A p \in PatchesReturned :
        /\ DOMAIN p = CanonicalPatchFields
        /\ \A f \in DefaultedFields : p[f] # PyNone

----------------------------------------------------------------------------
(* C26: REST person records *)

\* the person record the payload p stands for
PersonOf(p) ==
    [id |-> p.id, email |-> p.email,
     name |-> IF PyTruthy(p.name) THEN p.name ELSE p.email,
     user |-> IF PyTruthy(p.user) THEN p.user.username ELSE PyStr(<< >>)]

PersonPayload(p) == {"id", "email", "name", "user"} \subseteq DOMAIN p

\* C26: REST person normalisation succeeds for every person payload that
\* carries id, email, name and user (user possibly null) and yields
\* {id, email, name, user}: name is the payload's name, or the email when
\* the name is blank; user is the username of the associated account, or
\* the empty string when there is none.
C26_RestPersonRecord ==
    /\ (op = "REST.person_get" /\ inp.resp.status = HTTP_OK
            /\ PersonPayload(inp.resp.json)) =>
          outcome = "return" /\ ret = PersonOf(inp.resp.json)
    /\ (op = "REST.person_list" /\ inp.search_str = PyNone
            /\ inp.resp.status = HTTP_OK
            /\ \A i \in 1..Len(inp.resp.json) :
                   PersonPayload(inp.resp.json[i])) =>
          /\ outcome = "return"
          /\ ret = PyList([i \in 1..Len(inp.resp.json) |->
                              PersonOf(inp.resp.json[i])])

----------------------------------------------------------------------------
(* C27: REST check records for a check without a user *)

CheckFields ==
    {"id", "date", "patch", "patch_id", "user", "user_id", "state",
     "target_url", "description", "context"}

\* r is the canonical record of the check payload and the patch fetched
\* for it
CheckRecordOf(r, check, patch) ==
    /\ DOMAIN r = CheckFields
    /\ r.patch = patch.name
    /\ r.patch_id = patch.id
    /\ r.user = IF PyTruthy(check.user) THEN check.user.username
                ELSE PyStr(<< >>)
    /\ \A f \in {"id", "date", "state", "target_url", "description",
                 "context"} : r[f] = check[f]

BothAnswered == inp.first.status = HTTP_OK /\ inp.second.status = HTTP_OK

\* C27: REST check normalisation (check_list, check_get, check_create)
\* succeeds for a check that has no associated user and yields the full
\* canonical check record with user the empty string; patch and patch_id
\* come from the separately fetched patch, every other field from the
\* check payload.
C27_CheckWithoutUser ==
    /\ (op = "REST.check_get" /\ PyTruthy(inp.patch_id) /\ BothAnswered
            /\ inp.second.json.user = PyNone) =>
          /\ outcome = "return"
          /\ CheckRecordOf(ret, inp.second.json, inp.first.json)
    /\ (op = "REST.check_create" /\ BothAnswered
            /\ inp.first.json.user = PyNone) =>
          /\ outcome = "return"
          /\ CheckRecordOf(ret, inp.first.json, inp.second.json)
    /\ (op = "REST.check_list" /\ PyTruthy(inp.patch_id) /\ BothAnswered
            /\ \E i \in 1..Len(inp.second.json) :
                   inp.second.json[i].user = PyNone) =>
          /\ outcome = "return"
          /\ Len(ret.items) = Len(inp.second.json)
          /\ \A i \in 1..Len(ret.items) :
                 CheckRecordOf(ret.items[i], inp.second.json[i],
                               inp.first.json)

----------------------------------------------------------------------------
(* C28: Binary fields of legacy patch records *)

\* the text the bytes of a blob of the model stand for
TextOf(bytes) ==
    IF bytes = <<102, 105, 120>> THEN <<"f", "i", "x">>
    ELSE IF bytes = <<102, 195, 169>> THEN <<"f", "e-acute">>
    ELSE << >>

\* r is the wire record w with its blobs decoded and nothing else changed
DecodedFrom(r, w) ==
    /\ DOMAIN r = DOMAIN w
    /\ \A k \in DOMAIN w :
          IF w[k].t = "Binary" THEN r[k] = PyStr(TextOf(w[k].data))
          ELSE r[k] = w[k]

LegacyRecordOps ==
    {"XMLRPC.patch_get", "XMLRPC.patch_get_by_hash",
     "XMLRPC.patch_get_by_project_hash"}

\* C28: every patch record the legacy backend returns from patch_list,
\* patch_get, patch_get_by_hash and patch_get_by_project_hash has each
\* field that arrived as a Binary blob replaced by its UTF-8 text, every
\* other field unchanged and the field names of the wire record; no
\* Binary value reaches the caller.
C28_BinaryDecoded ==
    /\ (op \in LegacyRecordOps /\ outcome = "return" /\ ret # << >>) =>
          DecodedFrom(ret, inp.answer.value)
    /\ (op = "XMLRPC.patch_list" /\ outcome = "return") =>
          /\ \A i \in 1..Len(ret.items) :
                 \A k \in DOMAIN ret.items[i] :
                     ret.items[i][k].t # "Binary"
          /\ NoPersonFilter =>
                 LET wire == inp.answers.patches[1].value IN
                 /\ Len(ret.items) = Len(wire)
                 /\ \A i \in 1..Len(wire) : DecodedFrom(ret.items[i], wire[i])

----------------------------------------------------------------------------
(* C29: what an update reports about its set call *)

\* the update command sent its set call
SetCallSent == op = "patches.action_update" /\ Positions("patch_set") # {}

\* standard error ends with the tokens of note
EndsWith(note) ==
    /\ Len(stderr) >= Len(note)
    /\ SubSeq(stderr, Len(stderr) - Len(note) + 1, Len(stderr)) = note

----------------------------------------------------------------------------
(* C30: no filter of a patch_list is dropped silently *)

\* the key a filter travels under: in the legacy filters, in the REST query
LegacyKey(f) ==
    CASE f = "project" -> "project_id" [] f = "submitter" -> "submitter_id"
      [] f = "delegate" -> "delegate_id" [] f = "state" -> "state_id"
      [] f = "name" -> "name__icontains" [] OTHER -> f

\* the filters the caller supplied, by name
SuppliedFilters ==
    LET named == {f \in {"project", "submitter", "delegate", "state"} :
                     f \in DOMAIN inp /\ inp[f].t # "None"}
        other == IF "other" \in DOMAIN inp
                 THEN {f \in {"archived", "msgid", "name", "hash"} :
                          inp.other[f].t # "None"}
                 ELSE {}
    IN  named \cup other

\* the filter went out with a request of the call
Transmitted(f) ==
    IF op = "XMLRPC.patch_list"
    THEN \E i \in 1..Len(ListFilters) : LegacyKey(f) \in DOMAIN ListFilters[i]
    ELSE \E k \in 1..Len(calls) : f \in DOMAIN calls[k].url.query

\* a diagnostic on standard error names the value of the filter
Reported(f) ==
    /\ f \in DOMAIN inp
    /\ inp[f].t = "str"
    /\ Written(inp[f].s)

\* the call asked for no list of patches at all, and said why
NothingListed ==
    /\ op = "XMLRPC.patch_list"
    /\ Len(ListFilters) = 0
    /\ \E f \in SuppliedFilters : Reported(f)

\* C30: for every patch_list call on either backend that returns, each
\* filter the caller supplied (project, submitter, delegate, state,
\* archived, msgid, name, hash) went out with a request of the call or is
\* named by a diagnostic on standard error (a call that lists nothing
\* because nobody matched has reported all of them); none is dropped
\* silently, the delegate next to a submitter and the submitter on the
\* REST backend included.
C30_NoFilterDroppedSilently ==
    (op \in {"XMLRPC.patch_list", "REST.patch_list"} /\ outcome = "return") =>
        \A f \in SuppliedFilters :
            Transmitted(f) \/ Reported(f) \/ NothingListed

====
